---- MODULE Spec2Model ----
(***************************************************************************)
(* Dual N-Back: the game store (stores/gameStore.ts), the timer and        *)
(* keyboard flow that drives it (hooks/useGameFlow.ts, hooks/useGame.ts)   *)
(* and the sequence engine of utils/gameLogic.ts (placement, pattern       *)
(* breaking, materialization, snapshots, adaptive triggers).               *)
(*                                                                         *)
(* Wall-clock values (Date.now(): timestamps, responseDeadline,            *)
(* responseTime, gameStartTime, gameEndTime) and the UI-only feedback flag *)
(* are not part of the state; the one place that needs an ordering of      *)
(* snapshots uses the logical clock `now`.                                 *)
(***************************************************************************)
EXTENDS Integers, Sequences, FiniteSets, TLC

\* ------------------------------------------------------------ bounds ----
\* Largest n-back level the store is configured with.
MaxNLevel == 2
\* Largest number of rounds of a game (the sliders offer 10..50).
MaxRounds == 2
\* The values a channel of an installed sequence takes: two are enough for
\* every combination of match and non-match on the two channels.
ChannelValues == {0, 1}
\* Cap of the logical clock (the number of snapshots ever taken) where the
\* history has to fill up and overflow, and where it need not.
MaxClock == 22
StoreClock == 3
\* Cap on the length of the response log built by RecordResponse.
MaxLog == 5
\* Snapshots handed to the controller, and the n-levels it is asked about.
MaxSnapshots == 4
MaxCtlLevel == 10
\* Slots and matches per channel handed to createEngagementPattern.
MaxSlots == 6
MaxMatches == 3
MinEligible == 6
\* Stimuli an AdaptiveSequenceGenerator is asked for after its first nLevel,
\* calls of updateConfig made on it, and how many values a draw of a channel
\* ranges over in getNextStimulus and in peekNextStimulus.
MaxGenerated == 6
\* Longest sequence handed to shouldPositionMatch and shouldAudioMatch.
MaxChecked == 3
\* Longest log and widest window handed to createPerformanceSnapshot.
MaxSnapshotLog == 3
MaxWindow == 3
\* Largest count handed to calculateAccuracy.
MaxCount == 10
\* Longest history handed to calculateAdaptiveAdjustments (it reads the last 5).
MaxAdjustHistory == 6
\* Length of the adaptive sequence whose segments are longer than 5.
LongLength == 26
MaxUpdates == 1
\* Stimuli each of two instances is asked for after its first nLevel.
MaxInstanceGenerated == 2
\* Direct calls of the store: longest response log, largest missed count and
\* the cap of the clock.
MaxDirectLog == 1
MaxDirectMissed == 1
DirectClock == 1
\* Cap of the clock under the timer-driven flow: room for two games.
FlowClock == 4
GeneratorDraws == [position |-> 1, audio |-> 1]
PeekDraws == [position |-> 2, audio |-> 1]
\* The shuffles of selectMatchIndices followed: the one that keeps the order
\* and the one that reverses it, or all of them.
AllShuffles == [position |-> FALSE, audio |-> FALSE]

\* ------------------------------------------------- program constants ----
\* gameStore.ts: snapshot every SnapshotEvery responses, over a window of
\* SnapshotWindow entries, keeping HistoryLimit snapshots.
SnapshotEvery == 5
SnapshotWindow == 10
HistoryLimit == 20
MaxSliderLevel == 8

VARIABLES
  \* ---- game store (stores/gameStore.ts) ----
  nLevel, totalRounds, adaptiveMode,
  isPlaying, isPaused, currentRound, sequence, currentStimulusIndex,
  gamePhase, waitingForResponse, responses, score, performanceHistory,
  \* logical clock read by createPerformanceSnapshot's Date.now()
  now,
  \* snapshots appended since the last startGame (observer of the model)
  snapshotsThisGame,
  \* the cap of the logical clock in force (a bound of the model)
  clockCap,
  \* ---- adaptive-trigger controller (utils/gameLogic.ts 2700-2765) ----
  \* the history handed to analyzeAdaptiveTriggers, its nLevel, its result
  ctlHistory, ctlLevel, ctlResult,
  \* ---- sequence generation (utils/gameLogic.ts 2084-2437) ----
  \* where the generator stands, the arguments of createEngagementPattern,
  \* the patterns it has returned
  genStage, cepArgs, plan,
  \* placeMatches: its pattern, placed, lastPlaced, and the slots of the
  \* shuffled pool the weighted pass has not visited yet
  pattern, placed, lastPlaced, slotsLeft,
  \* addPatternBreaking: currentOverlap, targetOverlap and actualOverlap, the
  \* index of its loop, and the availableSlots and rounds left of a backfill
  overlap, breakIndex, availableSlots, fillsLeft,
  \* the generator called and its arguments, the sequence it has pushed, and
  \* how many values a draw of a stimulus ranges over (a bound of the model)
  genArgs, genSequence, drawWidth,
  \* ---- AdaptiveSequenceGenerator (utils/gameLogic.ts 2969-3281) ----
  \* the generators constructed, each the record of its fields; the last
  \* call made on one and what it returned (observer of the model); the
  \* calls of updateConfig left (a bound of the model)
  generators, lastCall, updatesLeft,
  \* ---- pure helpers of utils/gameLogic.ts ----
  \* the function called with its arguments, and what the call came to
  callArgs, callResult,
  \* ---- statistics store (stores/statsStore.ts) ----
  \* its stats and achievements, and the last call made on it with the
  \* error it threw (observer of the model)
  stats, achievements, lastStatsCall

storeVars == <<nLevel, totalRounds, adaptiveMode, isPlaying, isPaused,
               currentRound, sequence, currentStimulusIndex, gamePhase,
               waitingForResponse, responses, score, performanceHistory,
               now, snapshotsThisGame, clockCap>>

ctlVars == <<ctlHistory, ctlLevel, ctlResult>>

placeVars == <<pattern, placed, lastPlaced, slotsLeft>>
breakVars == <<overlap, breakIndex, availableSlots, fillsLeft>>
seqVars == <<genArgs, genSequence, drawWidth>>
genVars == <<genStage, cepArgs, plan, placeVars, breakVars, seqVars>>

asgVars == <<generators, lastCall, updatesLeft>>

callVars == <<callArgs, callResult>>

statsVars == <<stats, achievements, lastStatsCall>>

vars == <<storeVars, ctlVars, genVars, asgVars, callVars, statsVars>>

\* What the handlers of one part leave alone.
nonStoreVars == <<ctlVars, genVars, asgVars, callVars, statsVars>>
nonCtlVars == <<storeVars, genVars, asgVars, callVars, statsVars>>
nonGenVars == <<storeVars, ctlVars, asgVars, callVars, statsVars>>
nonAsgVars == <<storeVars, ctlVars, genVars, callVars, statsVars>>
nonCallVars == <<storeVars, ctlVars, genVars, asgVars, statsVars>>
nonStatsVars == <<storeVars, ctlVars, genVars, asgVars, callVars>>

\* ------------------------------------------------------------ helpers ---
\* Array.prototype.slice(-n): the last n elements.
SliceLast(s, n) ==
  IF Len(s) <= n THEN s ELSE SubSeq(s, Len(s) - n + 1, Len(s))

\* Array.prototype.filter(...).length
CountWhere(s, P(_)) == Cardinality({i \in 1..Len(s) : P(s[i])})

\* ------------------------------------------------------ game store ------
ZeroScore ==
  [positionCorrect |-> 0, positionIncorrect |-> 0,
   audioCorrect |-> 0, audioIncorrect |-> 0,
   totalCorrect |-> 0, totalIncorrect |-> 0,
   missedPositional |-> 0, missedAudio |-> 0, totalMissed |-> 0]

Stimuli == [position : ChannelValues, audio : ChannelValues]

\* The sequences startGame may install: totalRounds + nLevel stimuli.  The
\* store reads a sequence only through the equalities sequence[i] =
\* sequence[i - nLevel], so the first n stimuli (references only) are fixed and
\* every later one is free: each match pattern of the two channels occurs.
StoreSequences(n, len) ==
  {seq \in [1..len -> Stimuli] :
     \A i \in 1..len : i <= n => seq[i] = [position |-> 0, audio |-> 0]}

\* sequence[i] with the source's 0-based index.
At(seq, i) == seq[i + 1]

\* ---- createPerformanceSnapshot (gameLogic.ts 1765-1810) ----
\* r.f of a response-log entry: a field the entry does not carry reads as
\* undefined in JavaScript.
Has(r, f) == f \in DOMAIN r
\* r.f !== null : undefined is not null.
NotNull(r, f) == IF Has(r, f) THEN r[f] # "null" ELSE TRUE
\* r.f === null
IsNull(r, f) == IF Has(r, f) THEN r[f] = "null" ELSE FALSE
\* truthiness of a boolean-valued field; undefined is falsy.
Truthy(r, f) == IF Has(r, f) THEN r[f] = TRUE ELSE FALSE

SnapshotCorrect(r) ==
  \/ (NotNull(r, "position") /\ Truthy(r, "positionCorrect"))
  \/ (NotNull(r, "audio") /\ Truthy(r, "audioCorrect"))
  \/ (IsNull(r, "position") /\ IsNull(r, "audio")
        /\ ~Truthy(r, "positionExpected") /\ ~Truthy(r, "audioExpected"))

SnapshotMissed(r) ==
  \/ (Truthy(r, "positionExpected") /\ IsNull(r, "position"))
  \/ (Truthy(r, "audioExpected") /\ IsNull(r, "audio"))

createPerformanceSnapshot(resp, timeWindow, clock) ==
  LET recentResponses == SliceLast(resp, timeWindow)
      total == Len(recentResponses)
  IN IF total = 0
       THEN [accuracy |-> 0, missedResponses |-> 0, totalResponses |-> 0,
             timestamp |-> clock]
       ELSE [accuracy |-> (CountWhere(recentResponses, SnapshotCorrect) * 100)
                            \div total,
             missedResponses |-> CountWhere(recentResponses, SnapshotMissed),
             totalResponses |-> total,
             timestamp |-> clock]

\* ---- submitResponse (gameStore.ts 246-343) ----
ResponseTypes == {"position", "audio"}
NoResponse == "none"

PositionMatches(seq, i, n) ==
  i - n >= 0 /\ At(seq, i - n).position = At(seq, i).position
AudioMatches(seq, i, n) ==
  i - n >= 0 /\ At(seq, i - n).audio = At(seq, i).audio

\* correct, as submitResponse computes it for a typed response.
ResponseCorrect(type) ==
  IF type = "position"
    THEN PositionMatches(sequence, currentStimulusIndex, nLevel)
    ELSE AudioMatches(sequence, currentStimulusIndex, nLevel)

\* The entry newResponses.push(...) appends (gameStore.ts 286-291).
ResponseEntry(type, round, correct) ==
  [type |-> type, roundIndex |-> round, correct |-> correct]

\* Mutant of ScoredResponses: a timed-out round is logged as well.
ScoredResponses_LogsEveryCall(type) ==
  IF currentStimulusIndex - nLevel >= 0
    THEN Append(responses,
                ResponseEntry(type, currentRound, ResponseCorrect(type)))
    ELSE responses

ScoredResponses(type) ==
  IF currentStimulusIndex - nLevel >= 0 /\ type # NoResponse
    THEN Append(responses,
                ResponseEntry(type, currentRound, ResponseCorrect(type)))
    ELSE responses

ScoredScore(type) ==
  LET scored == currentStimulusIndex - nLevel >= 0
      hit == scored /\ type # NoResponse /\ ResponseCorrect(type)
      bad == scored /\ type # NoResponse /\ ~ResponseCorrect(type)
      pc == score.positionCorrect
              + (IF hit /\ type = "position" THEN 1 ELSE 0)
      pi == score.positionIncorrect
              + (IF bad /\ type = "position" THEN 1 ELSE 0)
      ac == score.audioCorrect + (IF hit /\ type = "audio" THEN 1 ELSE 0)
      ai == score.audioIncorrect + (IF bad /\ type = "audio" THEN 1 ELSE 0)
      mp == score.missedPositional
              + (IF scored /\ type = NoResponse
                    /\ PositionMatches(sequence, currentStimulusIndex, nLevel)
                  THEN 1 ELSE 0)
      ma == score.missedAudio
              + (IF scored /\ type = NoResponse
                    /\ AudioMatches(sequence, currentStimulusIndex, nLevel)
                  THEN 1 ELSE 0)
  IN [positionCorrect |-> pc, positionIncorrect |-> pi,
      audioCorrect |-> ac, audioIncorrect |-> ai,
      totalCorrect |-> pc + ac, totalIncorrect |-> pi + ai,
      missedPositional |-> mp, missedAudio |-> ma, totalMissed |-> mp + ma]

\* The snapshot condition of submitResponse, on the updated state.
TakesSnapshot(newResponses) ==
  adaptiveMode /\ Len(newResponses) % SnapshotEvery = 0

\* Mutant of KeepHistory: the slice keeps one snapshot too many.
KeepHistory_OffByOne(h) == SliceLast(h, HistoryLimit + 1)

\* newPerformanceHistory.slice(-20)
KeepHistory(h) == SliceLast(h, HistoryLimit)

\* gameStore.ts 325-342: the snapshot taken on the updated state.
\* analyzeAdaptiveTriggers runs here too; its result is only logged.
SnapshotStep(newResponses) ==
  IF TakesSnapshot(newResponses)
    THEN /\ now < clockCap
         /\ now' = now + 1
         /\ performanceHistory' =
              KeepHistory(Append(performanceHistory,
                createPerformanceSnapshot(newResponses, SnapshotWindow,
                                          now + 1)))
         /\ snapshotsThisGame' = snapshotsThisGame + 1
    ELSE UNCHANGED <<now, performanceHistory, snapshotsThisGame>>

\* gameStore.ts 250, 264-299: past the n-back threshold the handler reads
\* .position or .audio of sequence[currentStimulusIndex]; with the index
\* beyond the sequence that is a TypeError, thrown before set() is reached.
SubmitThrows ==
  /\ currentStimulusIndex - nLevel >= 0
  /\ currentStimulusIndex >= Len(sequence)

SubmitResponse(type) ==
  IF SubmitThrows
    THEN UNCHANGED vars
    ELSE /\ responses' = ScoredResponses(type)
         /\ score' = ScoredScore(type)
         /\ waitingForResponse' = FALSE
         /\ gamePhase' = "feedback"
         /\ SnapshotStep(ScoredResponses(type))
         /\ UNCHANGED <<nonStoreVars, clockCap, nLevel, totalRounds,
                        adaptiveMode, isPlaying, isPaused, currentRound,
                        sequence, currentStimulusIndex>>

\* ---- submitResponseIfValid (gameStore.ts 345-352) ----
SubmitResponseIfValid(type) ==
  IF currentStimulusIndex - nLevel >= 0 /\ waitingForResponse
    THEN SubmitResponse(type)
    ELSE UNCHANGED vars

\* ---- waitForResponse (gameStore.ts 203-222) ----
\* Mutant of ShouldWaitForResponse: the threshold is one stimulus early.
ShouldWaitForResponse_OneEarly == currentStimulusIndex >= nLevel - 1

ShouldWaitForResponse == currentStimulusIndex >= nLevel

WaitForResponse ==
  /\ IF ShouldWaitForResponse
       THEN gamePhase' = "response" /\ waitingForResponse' = TRUE
       ELSE gamePhase' = "waiting" /\ waitingForResponse' = FALSE
  /\ UNCHANGED <<nonStoreVars, clockCap, nLevel, totalRounds, adaptiveMode, isPlaying, isPaused,
                 currentRound, sequence, currentStimulusIndex, responses,
                 score, performanceHistory, now, snapshotsThisGame>>

\* ---- nextStimulus (gameStore.ts 224-244) ----
Max(a, b) == IF a >= b THEN a ELSE b

\* Mutant of NextStimulus: the index advances past the last stimulus.
NextStimulus_AlwaysAdvances ==
  LET nextIndex == currentStimulusIndex + 1
  IN /\ currentStimulusIndex' = nextIndex
     /\ currentRound' = Max(1, nextIndex - nLevel + 1)
     /\ gamePhase' = "stimulus"
     /\ waitingForResponse' = FALSE
     /\ UNCHANGED <<nonStoreVars, clockCap, nLevel, totalRounds, adaptiveMode,
                    isPlaying, isPaused, sequence, responses, score,
                    performanceHistory, now, snapshotsThisGame>>

NextStimulus ==
  LET nextIndex == currentStimulusIndex + 1
  IN /\ IF nextIndex >= Len(sequence)
          THEN /\ isPlaying' = FALSE
               /\ gamePhase' = "completed"
               /\ UNCHANGED <<currentStimulusIndex, currentRound,
                              waitingForResponse>>
          ELSE /\ currentStimulusIndex' = nextIndex
               /\ currentRound' = Max(1, nextIndex - nLevel + 1)
               /\ gamePhase' = "stimulus"
               /\ waitingForResponse' = FALSE
               /\ UNCHANGED isPlaying
     /\ UNCHANGED <<nonStoreVars, clockCap, nLevel, totalRounds, adaptiveMode, isPaused, sequence,
                    responses, score, performanceHistory, now,
                    snapshotsThisGame>>

\* ---- startGame (gameStore.ts 90-140) ----
\* The sequence is the result of generateAdaptiveSequence or
\* generateEngagingSequence for totalRounds + nLevel stimuli.
\* Mutant of StartGame: the response log of the game before is kept.
StartGame_KeepsLog ==
  /\ isPlaying' = TRUE
  /\ isPaused' = FALSE
  /\ currentRound' = 0
  /\ currentStimulusIndex' = 0
  /\ gamePhase' = "stimulus"
  /\ waitingForResponse' = FALSE
  /\ score' = ZeroScore
  /\ snapshotsThisGame' = 0
  /\ UNCHANGED <<nonStoreVars, clockCap, nLevel, totalRounds, adaptiveMode,
                 performanceHistory, now, responses>>
  /\ \E seq \in StoreSequences(nLevel, totalRounds + nLevel) : sequence' = seq

StartGame ==
  /\ isPlaying' = TRUE
  /\ isPaused' = FALSE
  /\ currentRound' = 0
  /\ currentStimulusIndex' = 0
  /\ gamePhase' = "stimulus"
  /\ waitingForResponse' = FALSE
  /\ responses' = <<>>
  /\ score' = ZeroScore
  /\ snapshotsThisGame' = 0
  /\ UNCHANGED <<nonStoreVars, clockCap, nLevel, totalRounds, adaptiveMode, performanceHistory, now>>
  /\ \E seq \in StoreSequences(nLevel, totalRounds + nLevel) : sequence' = seq

\* ---- pauseGame / resumeGame / stopGame (gameStore.ts 142-160) ----
PauseGame ==
  /\ isPaused' = TRUE
  /\ gamePhase' = "waiting"
  /\ UNCHANGED <<nonStoreVars, clockCap, nLevel, totalRounds, adaptiveMode, isPlaying, currentRound,
                 sequence, currentStimulusIndex, waitingForResponse,
                 responses, score, performanceHistory, now,
                 snapshotsThisGame>>

ResumeGame ==
  /\ isPaused' = FALSE
  /\ gamePhase' = IF currentStimulusIndex < Len(sequence)
                    THEN "stimulus" ELSE "completed"
  /\ UNCHANGED <<nonStoreVars, clockCap, nLevel, totalRounds, adaptiveMode, isPlaying, currentRound,
                 sequence, currentStimulusIndex, waitingForResponse,
                 responses, score, performanceHistory, now,
                 snapshotsThisGame>>

StopGame ==
  /\ isPlaying' = FALSE
  /\ isPaused' = FALSE
  /\ gamePhase' = "completed"
  /\ UNCHANGED <<nonStoreVars, clockCap, nLevel, totalRounds, adaptiveMode, currentRound, sequence,
                 currentStimulusIndex, waitingForResponse, responses, score,
                 performanceHistory, now, snapshotsThisGame>>

\* ---- endGame (gameStore.ts 162-166) ----
\* Mutant of EndGame: ending the game discards its sequence.
EndGame_DropsSequence ==
  /\ isPlaying' = FALSE
  /\ gamePhase' = "completed"
  /\ sequence' = <<>>
  /\ UNCHANGED <<nonStoreVars, clockCap, nLevel, totalRounds, adaptiveMode,
                 isPaused, currentRound, currentStimulusIndex,
                 waitingForResponse, responses, score, performanceHistory,
                 now, snapshotsThisGame>>

EndGame ==
  /\ isPlaying' = FALSE
  /\ gamePhase' = "completed"
  /\ UNCHANGED <<nonStoreVars, clockCap, nLevel, totalRounds, adaptiveMode,
                 isPaused, currentRound, sequence, currentStimulusIndex,
                 waitingForResponse, responses, score, performanceHistory,
                 now, snapshotsThisGame>>

\* ---- resetGame (gameStore.ts 168-175): back to initialGameState ----
ResetGame ==
  /\ isPlaying' = FALSE
  /\ isPaused' = FALSE
  /\ currentRound' = 0
  /\ sequence' = <<>>
  /\ currentStimulusIndex' = -1
  /\ gamePhase' = "waiting"
  /\ waitingForResponse' = FALSE
  /\ responses' = <<>>
  /\ score' = ZeroScore
  /\ snapshotsThisGame' = 0
  /\ UNCHANGED <<nonStoreVars, clockCap, nLevel, totalRounds, adaptiveMode, performanceHistory, now>>

\* ---- updateSettings (gameStore.ts 177-186) ----
UpdateSettings(n, r) ==
  /\ nLevel' = n
  /\ totalRounds' = r
  /\ UNCHANGED <<nonStoreVars, clockCap, adaptiveMode, isPlaying, isPaused, currentRound, sequence,
                 currentStimulusIndex, gamePhase, waitingForResponse,
                 responses, score, performanceHistory, now,
                 snapshotsThisGame>>

\* ---- toggleAdaptiveMode (gameStore.ts 188-192) ----
ToggleAdaptiveMode ==
  /\ adaptiveMode' = ~adaptiveMode
  /\ UNCHANGED <<nonStoreVars, clockCap, nLevel, totalRounds, isPlaying, isPaused, currentRound,
                 sequence, currentStimulusIndex, gamePhase,
                 waitingForResponse, responses, score, performanceHistory,
                 now, snapshotsThisGame>>

\* ---- setSequence (gameStore.ts 194) ----
SetSequence(seq) ==
  /\ sequence' = seq
  /\ UNCHANGED <<nonStoreVars, clockCap, nLevel, totalRounds, adaptiveMode,
                 isPlaying, isPaused, currentRound, currentStimulusIndex,
                 gamePhase, waitingForResponse, responses, score,
                 performanceHistory, now, snapshotsThisGame>>

\* ---- presentStimulus (gameStore.ts 196-201) ----
PresentStimulus(index) ==
  /\ currentStimulusIndex' = index
  /\ gamePhase' = "stimulus"
  /\ waitingForResponse' = FALSE
  /\ UNCHANGED <<nonStoreVars, clockCap, nLevel, totalRounds, adaptiveMode,
                 isPlaying, isPaused, currentRound, sequence, responses,
                 score, performanceHistory, now, snapshotsThisGame>>

\* ------------------------------------------- handlers of the UI ---------
\* useGameFlow.ts 17-46: one timer per phase while playing and not paused.
TimerRuns == isPlaying /\ ~isPaused

TimerStimulus == TimerRuns /\ gamePhase = "stimulus" /\ WaitForResponse
TimerResponse == TimerRuns /\ gamePhase = "response"
                   /\ SubmitResponse(NoResponse)
TimerFeedback == TimerRuns /\ gamePhase = "feedback" /\ NextStimulus
\* Mutant of TimerWaiting: the timer of the waiting phase asks for a response
\* again instead of advancing.
TimerWaiting_AsksAgain ==
  TimerRuns /\ gamePhase = "waiting" /\ WaitForResponse

TimerWaiting == TimerRuns /\ gamePhase = "waiting" /\ NextStimulus

TimerStep == TimerStimulus \/ TimerResponse \/ TimerFeedback \/ TimerWaiting

\* useGameFlow.ts 49-75: the keydown handler (a / l / space).
KeyPress ==
  /\ isPlaying /\ waitingForResponse
  /\ \E type \in ResponseTypes \cup {NoResponse} : SubmitResponse(type)

\* useGame.ts 12-19 behind GameControls' response buttons, shown while
\* playing (GameControls.tsx 119-121).
ClickResponse ==
  /\ isPlaying
  /\ currentStimulusIndex - nLevel >= 0 /\ waitingForResponse
  /\ \E type \in ResponseTypes : SubmitResponse(type)

\* GameControls.tsx 91-93: the start button is rendered while not playing.
ClickStart == ~isPlaying /\ StartGame

\* GameControls.tsx 108-112: the reset button is rendered while not playing.
ClickReset == ~isPlaying /\ ResetGame

\* GameControls.tsx 205-222: the two sliders, disabled while playing; each
\* calls updateSettings with its own key.
ChangeNLevel ==
  /\ ~isPlaying
  /\ \E n \in 1..MaxNLevel : n # nLevel /\ UpdateSettings(n, totalRounds)

ChangeRounds ==
  /\ ~isPlaying
  /\ \E r \in 1..MaxRounds : r # totalRounds /\ UpdateSettings(nLevel, r)

\* ---------------------------------------------------------------------------
\* JavaScript numbers: IEEE-754 binary64, round to nearest, ties to even, on
\* the non-negative values the controller computes.  A natural number is a
\* little-endian sequence of limbs below LimbBase (zero is the empty
\* sequence); a double is [m, q] with value m * 2^q, where m is zero or has
\* exactly Precision bits.
\* ---------------------------------------------------------------------------
LimbBits == 14
LimbBase == 2 ^ LimbBits
Precision == 53

RECURSIVE NatOfInt(_)
NatOfInt(n) ==
  IF n = 0 THEN <<>> ELSE <<n % LimbBase>> \o NatOfInt(n \div LimbBase)

\* N * c + carry, for c and carry below LimbBase.
RECURSIVE MulSmall(_, _, _)
MulSmall(N, c, carry) ==
  IF N = <<>> THEN NatOfInt(carry)
  ELSE LET p == N[1] * c + carry
       IN <<p % LimbBase>> \o MulSmall(Tail(N), c, p \div LimbBase)

RECURSIVE AddNat(_, _, _)
AddNat(A, B, carry) ==
  IF A = <<>> /\ B = <<>> THEN NatOfInt(carry)
  ELSE LET a == IF A = <<>> THEN 0 ELSE A[1]
           b == IF B = <<>> THEN 0 ELSE B[1]
           s == a + b + carry
       IN <<s % LimbBase>>
            \o AddNat(IF A = <<>> THEN <<>> ELSE Tail(A),
                      IF B = <<>> THEN <<>> ELSE Tail(B), s \div LimbBase)

\* Drops the zero limbs at the most significant end.
RECURSIVE TrimNat(_)
TrimNat(N) ==
  IF N = <<>> THEN <<>>
  ELSE IF N[Len(N)] = 0 THEN TrimNat(SubSeq(N, 1, Len(N) - 1)) ELSE N

\* Quotient and remainder of N by d, for d up to LimbBase; the quotient keeps
\* the length of N (TrimNat normalises it).
RECURSIVE DivSmall(_, _, _)
DivSmall(N, d, r) ==
  IF N = <<>> THEN [quot |-> <<>>, rem |-> r]
  ELSE LET n == Len(N)
           c == r * LimbBase + N[n]
           t == DivSmall(SubSeq(N, 1, n - 1), d, c % d)
       IN [quot |-> t.quot \o <<c \div d>>, rem |-> t.rem]

IntBitLen(t) == IF t = 0 THEN 0 ELSE CHOOSE k \in 1..31 : 2 ^ (k - 1) <= t /\ (k = 31 \/ t < 2 ^ k)

BitLen(N) == IF N = <<>> THEN 0 ELSE LimbBits * (Len(N) - 1) + IntBitLen(N[Len(N)])

RECURSIVE ShiftLeft(_, _)
ShiftLeft(N, k) ==
  IF k < LimbBits THEN MulSmall(N, 2 ^ k, 0)
  ELSE ShiftLeft(<<0>> \o N, k - LimbBits)

\* N shifted right by k bits, and whether a dropped bit was set.
RECURSIVE ShiftRight(_, _, _)
ShiftRight(N, k, lost) ==
  IF k = 0 THEN [n |-> N, lost |-> lost]
  ELSE LET s == IF k < LimbBits THEN k ELSE LimbBits
           t == DivSmall(N, 2 ^ s, 0)
       IN ShiftRight(TrimNat(t.quot), k - s, lost \/ t.rem # 0)

RECURSIVE LessNat(_, _)
LessNat(A, B) ==
  IF Len(A) # Len(B) THEN Len(A) < Len(B)
  ELSE IF A = <<>> THEN FALSE
  ELSE LET n == Len(A)
       IN IF A[n] # B[n] THEN A[n] < B[n]
          ELSE LessNat(SubSeq(A, 1, n - 1), SubSeq(B, 1, n - 1))

DoubleZero == [m |-> <<>>, q |-> 0]

\* The double nearest to N * 2^q, N exact unless sticky (then a little more).
RoundNat(N, q, sticky) ==
  LET len == BitLen(N)
  IN IF len = 0 THEN DoubleZero
     ELSE IF len <= Precision
       THEN [m |-> ShiftLeft(N, Precision - len), q |-> q - (Precision - len)]
     ELSE
       LET shift == len - Precision
           t == ShiftRight(N, shift - 1, sticky)
           h == DivSmall(t.n, 2, 0)
           m0 == TrimNat(h.quot)
           up == h.rem = 1 /\ (t.lost \/ m0[1] % 2 = 1)
           m1 == IF up THEN AddNat(m0, <<>>, 1) ELSE m0
       IN IF BitLen(m1) > Precision
            THEN [m |-> TrimNat(DivSmall(m1, 2, 0).quot), q |-> q + shift + 1]
            ELSE [m |-> m1, q |-> q + shift]

\* a / d for integers 0 <= a, 0 < d <= LimbBase (Number division of two
\* integers, and the decimal literal a/d).
DoubleOfRatio(a, d) ==
  LET k == Precision + 4 + IntBitLen(d) - IntBitLen(a)
      t == DivSmall(ShiftLeft(NatOfInt(a), k), d, 0)
  IN IF a = 0 THEN DoubleZero ELSE RoundNat(TrimNat(t.quot), -k, t.rem # 0)

\* x / d for a double x and an integer 0 < d <= 2^8.
DoubleDivInt(x, d) ==
  LET t == DivSmall(ShiftLeft(x.m, 12), d, 0)
  IN RoundNat(TrimNat(t.quot), x.q - 12, t.rem # 0)

\* x + y.
DoubleAdd(x, y) ==
  IF x.m = <<>> THEN y
  ELSE IF y.m = <<>> THEN x
  ELSE LET q == IF x.q < y.q THEN x.q ELSE y.q
       IN RoundNat(AddNat(ShiftLeft(x.m, x.q - q), ShiftLeft(y.m, y.q - q), 0),
                   q, FALSE)

\* x < y.
DoubleLess(x, y) ==
  IF y.m = <<>> THEN FALSE
  ELSE IF x.m = <<>> THEN TRUE
  ELSE IF x.q # y.q THEN x.q < y.q
  ELSE LessNat(x.m, y.m)

\* A * B.
RECURSIVE MulNat(_, _)
MulNat(A, B) ==
  IF B = <<>> THEN <<>>
  ELSE AddNat(MulSmall(A, B[1], 0), <<0>> \o MulNat(A, Tail(B)), 0)

\* A - B - borrow, for A >= B + borrow.
RECURSIVE SubNat(_, _, _)
SubNat(A, B, borrow) ==
  IF A = <<>> THEN <<>>
  ELSE LET b == (IF B = <<>> THEN 0 ELSE B[1]) + borrow
           d == IF A[1] >= b THEN A[1] - b ELSE A[1] + LimbBase - b
       IN <<d>> \o SubNat(Tail(A), IF B = <<>> THEN <<>> ELSE Tail(B),
                          IF A[1] >= b THEN 0 ELSE 1)

\* x * y.
DoubleMul(x, y) ==
  IF x.m = <<>> \/ y.m = <<>> THEN DoubleZero
  ELSE RoundNat(TrimNat(MulNat(x.m, y.m)), x.q + y.q, FALSE)

\* x - y for x >= y >= 0.
DoubleSub(x, y) ==
  IF y.m = <<>> THEN x
  ELSE LET q == IF x.q < y.q THEN x.q ELSE y.q
       IN RoundNat(TrimNat(SubNat(ShiftLeft(x.m, x.q - q), ShiftLeft(y.m, y.q - q), 0)),
                   q, FALSE)

\* Math.max and Math.min of two doubles >= 0.
DoubleMax(x, y) == IF DoubleLess(x, y) THEN y ELSE x
DoubleMin(x, y) == IF DoubleLess(y, x) THEN y ELSE x

\* ---------------------------------------------------------------------------
\* analyzeAdaptiveTriggers (utils/gameLogic.ts 2700-2765)
\* ---------------------------------------------------------------------------

\* The snapshot createPerformanceSnapshot returns for an empty response
\* window (gameLogic.ts 1770-1779), without the timestamp.
ZeroSnapshot == [accuracy |-> 0, missedResponses |-> 0, totalResponses |-> 0]

\* The snapshots handed to the controller: integer accuracies, and missed
\* counts out of a full window of SnapshotWindow rounds, and the snapshot of
\* an empty window.
CtlAccuracies == {35, 70, 97}
CtlMissed == {0, 3, 4, 9}
CtlSnapshots ==
  [accuracy : CtlAccuracies, missedResponses : CtlMissed,
   totalResponses : {SnapshotWindow}]
    \cup {ZeroSnapshot}

ExcellentThreshold(n) == Max(85, 95 - n * 2)
PoorThreshold(n) == Max(50, 65 - n * 3)

\* recent.reduce((sum, p) => sum + p.accuracy, 0): the accuracies are
\* integers, so the sum is exact, and sum / 3 compares with an integer
\* threshold t as sum compares with 3 * t.
RECURSIVE SumAccuracy(_)
SumAccuracy(recent) ==
  IF recent = <<>> THEN 0
  ELSE SumAccuracy(SubSeq(recent, 1, Len(recent) - 1))
         + recent[Len(recent)].accuracy

\* NaN, the Number 0 / 0 evaluates to; no rounding produces this record.
\* Sums and quotients with NaN are NaN, and every comparison with it is false.
DoubleNaN == [m |-> <<>>, q |-> 1]

\* p.missedResponses / p.totalResponses; missedResponses counts entries of
\* the window, so it is 0 when totalResponses is.
MissedRate(p) ==
  IF p.totalResponses = 0 THEN DoubleNaN
  ELSE DoubleOfRatio(p.missedResponses, p.totalResponses)

\* recent.reduce((sum, p) => sum + p.missedResponses / p.totalResponses, 0)
RECURSIVE SumMissedRate(_)
SumMissedRate(recent) ==
  IF recent = <<>> THEN DoubleZero
  ELSE LET sum == SumMissedRate(SubSeq(recent, 1, Len(recent) - 1))
           rate == MissedRate(recent[Len(recent)])
       IN IF sum = DoubleNaN \/ rate = DoubleNaN THEN DoubleNaN
          ELSE DoubleAdd(sum, rate)

AvgMissedRate(recent) ==
  LET sum == SumMissedRate(recent)
  IN IF sum = DoubleNaN THEN DoubleNaN ELSE DoubleDivInt(sum, Len(recent))

\* x < y for Numbers that may be NaN.
NumberLess(x, y) == x # DoubleNaN /\ y # DoubleNaN /\ DoubleLess(x, y)

Analysis(adjust, urgency, reason, action) ==
  [shouldAdjust |-> adjust, urgency |-> urgency, reason |-> reason,
   recommendedAction |-> action]

RecentCount == 3

analyzeAdaptiveTriggers(history, n) ==
  IF Len(history) < 3
    THEN Analysis(FALSE, "low", "insufficient data", "maintain")
  ELSE
    LET recent == SliceLast(history, RecentCount)
        len == Len(recent)
        sumAccuracy == SumAccuracy(recent)
        avgMissedRate == AvgMissedRate(recent)
        excellentThreshold == ExcellentThreshold(n)
        poorThreshold == PoorThreshold(n)
        trend == recent[len].accuracy - recent[1].accuracy
    IN IF sumAccuracy >= len * excellentThreshold
          /\ NumberLess(avgMissedRate, DoubleOfRatio(1, 10))
         THEN Analysis(TRUE,
                       IF \A i \in 1..len : recent[i].accuracy >= excellentThreshold
                         THEN "high" ELSE "medium",
                       "excellent performance", "increase")
       ELSE IF sumAccuracy <= len * poorThreshold
               \/ NumberLess(DoubleOfRatio(4, 10), avgMissedRate)
         THEN Analysis(TRUE,
                       IF sumAccuracy <= len * (poorThreshold - 10)
                         THEN "high" ELSE "medium",
                       "poor performance", "decrease")
       ELSE IF len >= 3 /\ trend < -15
         THEN Analysis(TRUE, "medium", "declining trend", "decrease")
       ELSE Analysis(FALSE, "low", "acceptable range", "maintain")

\* The controller applied to a growing history, as submitResponse does after
\* each snapshot (gameStore.ts 334-340).
CtlSnapshot ==
  /\ Len(ctlHistory) < MaxSnapshots
  /\ \E s \in CtlSnapshots :
       /\ ctlHistory' = Append(ctlHistory, s)
       /\ ctlResult' = analyzeAdaptiveTriggers(ctlHistory', ctlLevel)
  /\ UNCHANGED <<ctlLevel, nonCtlVars>>

CtlIdle ==
  /\ ctlHistory = <<>>
  /\ ctlLevel = 1
  /\ ctlResult = Analysis(FALSE, "low", "insufficient data", "maintain")


\* ---------------------------------------------------------------------------
\* Sequence generation (utils/gameLogic.ts 2084-2437).  Patterns and
\* sequences are functions on 0..(length - 1), indexed as in the source.
\* ---------------------------------------------------------------------------
Len0(f) == Cardinality(DOMAIN f)

AllFalse(length) == [i \in 0..(length - 1) |-> FALSE]

MatchCount(p) == Cardinality({i \in DOMAIN p : p[i]})

\* ---- calculateBellCurveWeight (gameLogic.ts 2182-2196) ----
\* Fixed point with WeightScale units to 1; exp by its power series.
WeightScale == 10000
ExpTerms == 14

RECURSIVE ExpSeries(_, _, _)
ExpSeries(y, k, term) ==
  IF k > ExpTerms THEN 0
  ELSE LET next == (term * y) \div (k * WeightScale)
       IN (IF k % 2 = 0 THEN next ELSE -next) + ExpSeries(y, k + 1, next)

\* exp(-y), y >= 0.
ExpNeg(y) == WeightScale + ExpSeries(y, 1, WeightScale)

\* (normalized - 0.5)^2 / (2 * 0.3^2) with normalized = position / (length - 1)
\* is (2 position - (length - 1))^2 * 100 / (72 (length - 1)^2).
calculateBellCurveWeight(position, length) ==
  IF length <= 1 THEN WeightScale
  ELSE LET d == 2 * position - (length - 1)
           y == (d * d * 100 * WeightScale) \div (72 * (length - 1) * (length - 1))
       IN (2 * WeightScale) \div 10 + (8 * ExpNeg(y)) \div 10

\* ---- isValidPosition (gameLogic.ts 2201-2221) ----
RECURSIVE ConsecutiveBefore(_, _)
ConsecutiveBefore(p, i) ==
  IF i >= 0 /\ p[i] THEN 1 + ConsecutiveBefore(p, i - 1) ELSE 0

isValidPosition(p, position, last, minGap, maxConsecutive, existingPattern, avoidOverlap) ==
  IF position - last <= minGap THEN FALSE
  ELSE IF avoidOverlap /\ existingPattern[position] THEN FALSE
  ELSE ConsecutiveBefore(p, position - 1) < maxConsecutive

\* ---- placeMatches (gameLogic.ts 2226-2292) ----
\* The call in progress: its arguments are read off cepArgs and genStage.
Length == cepArgs.length
TargetMatches ==
  IF genStage = "position" THEN cepArgs.positionMatches ELSE cepArgs.audioMatches
\* createEngagementPattern (2316): the audio call avoids the position pattern
\* below n-level 3.  AvoidOverlap_Never is its mutant: no call avoids.
AvoidOverlap_Never == FALSE
AvoidOverlap == genStage = "audio" /\ cepArgs.nLevel < 3
ExistingPattern == plan.position

Placing == genStage \in {"position", "audio"}

ValidSlot(slot) ==
  isValidPosition(pattern, slot, lastPlaced, cepArgs.minGap,
                  cepArgs.maxConsecutive, ExistingPattern, AvoidOverlap)

\* Math.random() < slot.weight * (1.2 - placed / targetMatches) holds for every
\* draw when the product reaches 1, and for some draws only below that.
AlwaysAccepted(slot) ==
  calculateBellCurveWeight(slot, Length) * (12 * TargetMatches - 10 * placed)
    >= 10 * TargetMatches * WeightScale

Place(slot) ==
  /\ pattern' = [pattern EXCEPT ![slot] = TRUE]
  /\ placed' = placed + 1
  /\ lastPlaced' = slot

\* Mutant of PlaceVisit: the weighted pass does not stop at targetMatches.
PlaceVisit_NoBreak ==
  /\ Placing
  /\ \E slot \in slotsLeft :
       /\ slotsLeft' = slotsLeft \ {slot}
       /\ IF ~ValidSlot(slot)
            THEN UNCHANGED <<pattern, placed, lastPlaced>>
            ELSE Place(slot)
  /\ UNCHANGED <<genStage, cepArgs, plan, breakVars, seqVars, nonGenVars>>

\* One iteration of the weighted pass, over the next slot of the shuffled
\* pool (any slot not visited yet: the shuffle reaches every order).
PlaceVisit ==
  /\ Placing
  /\ placed < TargetMatches
  /\ \E slot \in slotsLeft :
       /\ slotsLeft' = slotsLeft \ {slot}
       /\ IF ~ValidSlot(slot)
            THEN UNCHANGED <<pattern, placed, lastPlaced>>
            ELSE \/ Place(slot)
                 \/ /\ ~AlwaysAccepted(slot)
                    /\ UNCHANGED <<pattern, placed, lastPlaced>>
  /\ UNCHANGED <<genStage, cepArgs, plan, breakVars, seqVars, nonGenVars>>

RemainingSlots == {slot \in DOMAIN pattern : ~pattern[slot] /\ ValidSlot(slot)}

\* One iteration of the fill loop: the highest weighted remaining slot, the
\* first such slot of the shuffled pool when several weigh the same.
PlaceFill ==
  /\ Placing
  /\ slotsLeft = {}
  /\ placed < TargetMatches
  /\ \E bestSlot \in RemainingSlots :
       /\ \A slot \in RemainingSlots :
            calculateBellCurveWeight(slot, Length)
              <= calculateBellCurveWeight(bestSlot, Length)
       /\ Place(bestSlot)
  /\ UNCHANGED <<slotsLeft, genStage, cepArgs, plan, breakVars, seqVars, nonGenVars>>

PlaceReturns ==
  /\ Placing
  /\ placed >= TargetMatches \/ (slotsLeft = {} /\ RemainingSlots = {})

\* A fresh call of placeMatches.
PlaceStart ==
  /\ pattern' = AllFalse(Length)
  /\ placed' = 0
  /\ lastPlaced' = -cepArgs.minGap - 1
  /\ slotsLeft' = 0..(Length - 1)

\* No call of placeMatches in progress.
PlaceIdle ==
  /\ pattern = <<>>
  /\ placed = 0
  /\ lastPlaced = 0
  /\ slotsLeft = {}

\* The locals of a call are gone when it returns.
PlaceEnd ==
  /\ pattern' = <<>>
  /\ placed' = 0
  /\ lastPlaced' = 0
  /\ slotsLeft' = {}

\* ---- createEngagementPattern (gameLogic.ts 2298-2328) ----
ReturnPosition ==
  /\ genStage = "position"
  /\ PlaceReturns
  /\ plan' = [plan EXCEPT !.position = pattern]
  /\ genStage' = "audio"
  /\ PlaceStart
  /\ UNCHANGED <<cepArgs, breakVars, seqVars, nonGenVars>>

ReturnAudio ==
  /\ genStage = "audio"
  /\ PlaceReturns
  /\ plan' = [plan EXCEPT !.audio = pattern]
  /\ genStage' = "pattern"
  /\ PlaceEnd
  /\ UNCHANGED <<cepArgs, breakVars, seqVars, nonGenVars>>

\* The profiles of generateEngagingSequence (2095-2099): maxConsecutive, minGap.
Profiles ==
  [easy |-> [rate |-> 35, maxConsecutive |-> 1, minGap |-> 2],
   medium |-> [rate |-> 30, maxConsecutive |-> 2, minGap |-> 1],
   hard |-> [rate |-> 25, maxConsecutive |-> 3, minGap |-> 1]]
Difficulties == {"easy", "medium", "hard"}

\* ---- getOverlapThreshold (gameLogic.ts 1826-1834) ----
\* baseThreshold in thousandths; the random factor lies in [0.9, 1.1), and the
\* cap of 0.7 is never reached (1.1 * 0.6 < 0.7).
BaseThreshold(n) == IF 200 + (n - 1) * 100 < 600 THEN 200 + (n - 1) * 100 ELSE 600

\* Math.round(m * getOverlapThreshold(n)) over the draws of the random factor:
\* v is a result when [v - 0.5, v + 0.5) meets [0.9 m base, 1.1 m base).
TargetOverlaps(m, n) ==
  {v \in 0..m : /\ 9 * m * BaseThreshold(n) < (2 * v + 1) * 5000
                /\ (2 * v - 1) * 5000 < 11 * m * BaseThreshold(n)}

Overlap(position, audio) ==
  Cardinality({i \in DOMAIN position : position[i] /\ audio[i]})

Min(a, b) == IF a <= b THEN a ELSE b

\* ---- addPatternBreaking (gameLogic.ts 2334-2437) ----
Alternating(p, i) == p[i - 2] /\ ~p[i - 1] /\ p[i] /\ ~p[i + 1] /\ p[i + 2]

\* 2349-2362: an alternating run around i loses its middle match, unless the
\* other channel matches there, the n-level is 3 or more and the draw keeps it.
BreakAlternating(p, other, i, n, keep) ==
  IF Alternating(p, i) /\ (~other[i] \/ n < 3 \/ ~keep)
    THEN [p EXCEPT ![i] = FALSE] ELSE p

EveryThird(p, i) ==
  i % 3 = 0 /\ p[i] /\ p[i - 3] /\ i + 3 < Len0(p) /\ p[i + 3]

\* 2372-2381: the first of i-1, i+1, i-2, i+2 that is free and makes no
\* unwanted overlap takes the match.
RECURSIVE PlaceNearby(_, _, _, _)
PlaceNearby(p, audio, candidates, mayOverlap) ==
  IF candidates = <<>> THEN p
  ELSE LET j == Head(candidates)
       IN IF j >= 0 /\ j < Len0(p) /\ ~p[j] /\ (~audio[j] \/ mayOverlap)
            THEN [p EXCEPT ![j] = TRUE]
            ELSE PlaceNearby(p, audio, Tail(candidates), mayOverlap)

\* 2365-2384: a match on every third slot around i moves next door, on a draw.
BreakEveryThird(p, audio, i, n, move, mayOverlap) ==
  IF EveryThird(p, i) /\ (~audio[i] \/ n < 4) /\ move
    THEN PlaceNearby([p EXCEPT ![i] = FALSE], audio,
                     <<i - 1, i + 1, i - 2, i + 2>>, mayOverlap)
    ELSE p

\* No call of addPatternBreaking in progress.
BreakIdle ==
  /\ overlap = [current |-> 0, target |-> 0, actual |-> 0]
  /\ breakIndex = 0
  /\ availableSlots = {}
  /\ fillsLeft = [position |-> 0, audio |-> 0]

BreakEnd ==
  /\ overlap' = [current |-> 0, target |-> 0, actual |-> 0]
  /\ breakIndex' = 0
  /\ availableSlots' = {}
  /\ fillsLeft' = [position |-> 0, audio |-> 0]

\* Entry (2340-2344): the overlap now, and the overlap aimed at.
BreakingStart ==
  /\ genStage = "pattern"
  /\ \E target \in TargetOverlaps(Min(cepArgs.positionMatches, cepArgs.audioMatches),
                                  cepArgs.nLevel) :
       overlap' = [current |-> Overlap(plan.position, plan.audio),
                   target |-> target, actual |-> 0]
  /\ breakIndex' = 2
  /\ genStage' = "breaking"
  /\ UNCHANGED <<cepArgs, plan, placeVars, availableSlots, fillsLeft, seqVars,
                 nonGenVars>>

\* One iteration of the loop of 2347-2385.
BreakStep ==
  /\ genStage = "breaking"
  /\ breakIndex < Length - 2
  /\ \E keepPosition, keepAudio, move \in BOOLEAN :
       LET i == breakIndex
           n == cepArgs.nLevel
           position1 == BreakAlternating(plan.position, plan.audio, i, n, keepPosition)
           audio1 == BreakAlternating(plan.audio, position1, i, n, keepAudio)
           position2 == BreakEveryThird(position1, audio1, i, n, move,
                                        overlap.current < overlap.target)
       IN plan' = [position |-> position2, audio |-> audio1]
  /\ breakIndex' = breakIndex + 1
  /\ UNCHANGED <<genStage, cepArgs, overlap, placeVars, availableSlots,
                 fillsLeft, seqVars, nonGenVars>>

FreeSlots(p) == {i \in DOMAIN p : ~p[i]}

\* No backfill at all.
BackfillRounds_None(p, target) == 0

\* Math.min(deficit, availableSlots.length) rounds of backfill, none without a deficit.
BackfillRounds(p, target) ==
  IF MatchCount(p) < target
    THEN Min(target - MatchCount(p), Cardinality(FreeSlots(p))) ELSE 0

\* 2389-2398: the counts after the loop, and the backfill of position set up.
BreakingEnd ==
  /\ genStage = "breaking"
  /\ breakIndex >= Length - 2
  /\ overlap' = [overlap EXCEPT !.actual = Overlap(plan.position, plan.audio)]
  /\ availableSlots' = FreeSlots(plan.position)
  /\ fillsLeft' = [position |-> BackfillRounds(plan.position, cepArgs.positionMatches),
                   audio |-> BackfillRounds(plan.audio, cepArgs.audioMatches)]
  /\ genStage' = "backfillPosition"
  /\ UNCHANGED <<cepArgs, plan, breakIndex, placeVars, seqVars, nonGenVars>>

SetMin(S) == CHOOSE x \in S : \A y \in S : x <= y

\* 2401-2407 and 2422-2428: the first free slot, or the first free slot where
\* the other channel matches when overlap is wanted.
BestSlot(other) ==
  LET overlapSlots == {slot \in availableSlots : other[slot]}
  IN IF cepArgs.nLevel >= 3 /\ overlap.actual < overlap.target /\ overlapSlots # {}
       THEN SetMin(overlapSlots) ELSE SetMin(availableSlots)

\* One round of a backfill loop (2399-2412, 2420-2433): bestSlot, or on the
\* other draw any free slot.
BackfillPosition ==
  /\ genStage = "backfillPosition"
  /\ fillsLeft.position > 0
  /\ \E randomSlot \in {BestSlot(plan.audio)} \cup availableSlots :
       /\ plan' = [plan EXCEPT !.position[randomSlot] = TRUE]
       /\ availableSlots' = availableSlots \ {randomSlot}
  /\ fillsLeft' = [fillsLeft EXCEPT !.position = @ - 1]
  /\ UNCHANGED <<genStage, cepArgs, overlap, breakIndex, placeVars, seqVars,
                 nonGenVars>>

BackfillPositionEnd ==
  /\ genStage = "backfillPosition"
  /\ fillsLeft.position = 0
  /\ availableSlots' = FreeSlots(plan.audio)
  /\ genStage' = "backfillAudio"
  /\ UNCHANGED <<cepArgs, plan, overlap, breakIndex, fillsLeft, placeVars,
                 seqVars, nonGenVars>>

BackfillAudio ==
  /\ genStage = "backfillAudio"
  /\ fillsLeft.audio > 0
  /\ \E randomSlot \in {BestSlot(plan.position)} \cup availableSlots :
       /\ plan' = [plan EXCEPT !.audio[randomSlot] = TRUE]
       /\ availableSlots' = availableSlots \ {randomSlot}
  /\ fillsLeft' = [fillsLeft EXCEPT !.audio = @ - 1]
  /\ UNCHANGED <<genStage, cepArgs, overlap, breakIndex, placeVars, seqVars,
                 nonGenVars>>

\* addPatternBreaking returns (2436): the plan is final.
BreakingReturns ==
  /\ genStage = "backfillAudio"
  /\ fillsLeft.audio = 0
  /\ genStage' = "materialize"
  /\ BreakEnd
  /\ UNCHANGED <<cepArgs, plan, placeVars, seqVars, nonGenVars>>

\* ---- the loop of stimuli (gameLogic.ts 2138-2173, 2038-2071) ----
Push(f, x) == [i \in 0..Len0(f) |-> IF i = Len0(f) THEN x ELSE f[i]]

\* sequence.slice(Math.max(0, i - nLevel * 2), i)
UsedIndices(i, n) == {k \in 0..(i - 1) : k >= i - 2 * n}

\* used.filter(v => v === value).length over a channel
UsedCount(values, i, n, value) ==
  Cardinality({k \in UsedIndices(i, n) : values[k] = value})

\* The loop without its test against the n-back value.
Admissible_Repeats(values, i, n, maxValue) ==
  {value \in 0..maxValue : ~(UsedCount(values, i, n, value) > 1)}

\* The values the do-while loop lets through: not the n-back value, and not
\* more than once among the used values.
Admissible(values, i, n, maxValue) ==
  {value \in 0..maxValue : /\ value # values[i - n]
                           /\ ~(UsedCount(values, i, n, value) > 1)}

\* The draws followed: of the values the loop lets through, the first width
\* ones counting up from the n-back value, cyclically.
Rank(value, from, maxValue) == (value - from + maxValue + 1) % (maxValue + 1)

Draws(admissible, from, maxValue, width) ==
  {value \in admissible :
     Cardinality({other \in admissible :
                    Rank(other, from, maxValue) < Rank(value, from, maxValue)}) < width}

\* A channel of stimulus i: the n-back value on a match, a draw otherwise.
StimulusValues(values, i, n, maxValue, shouldMatch, width) ==
  IF shouldMatch THEN {values[i - n]}
  ELSE Draws(Admissible(values, i, n, maxValue), values[i - n], maxValue, width)

Positions == [i \in DOMAIN genSequence |-> genSequence[i].position]
Audios == [i \in DOMAIN genSequence |-> genSequence[i].audio]
MaxPosition == genArgs.gridSize * genArgs.gridSize - 1
MaxAudio == 7

\* The plan is an input of the loop: a slot the pattern stage has not fixed
\* is drawn when the loop reads it.
SlotValues(p, slot) == IF slot \in DOMAIN p THEN {p[slot]} ELSE BOOLEAN
WithSlot(p, slot, b) == [k \in DOMAIN p \cup {slot} |-> IF k = slot THEN b ELSE p[k]]

\* One stimulus pushed at index i, its plan slot given, and whether the loop
\* ends with it.
PushStimulus(i, slot, last) ==
  \E shouldPositionMatch \in SlotValues(plan.position, slot),
     shouldAudioMatch \in SlotValues(plan.audio, slot) :
    /\ plan' = [position |-> WithSlot(plan.position, slot, shouldPositionMatch),
                audio |-> WithSlot(plan.audio, slot, shouldAudioMatch)]
    /\ \E position \in StimulusValues(Positions, i, genArgs.nLevel, MaxPosition,
                                     shouldPositionMatch, drawWidth.position),
          audio \in StimulusValues(Audios, i, genArgs.nLevel, MaxAudio,
                                  shouldAudioMatch, drawWidth.audio) :
         genSequence' = Push(genSequence, [position |-> position, audio |-> audio])
    /\ genStage' = IF last THEN "done" ELSE genStage

\* generateEngagingSequence, one iteration of 2138-2173.
MaterializeEngaging ==
  /\ genStage = "materialize"
  /\ genArgs.kind = "engaging"
  /\ LET i == Len0(genSequence)
     IN PushStimulus(i, i - genArgs.nLevel, ~(i + 1 < genArgs.length))
  /\ UNCHANGED <<genArgs, drawWidth, cepArgs, placeVars, breakVars, nonGenVars>>

\* generateAdaptiveSequence (2002-2006): the segments of the eligible stimuli.
Eligible == genArgs.length - genArgs.nLevel
SegmentSize == IF Eligible \div 4 > 5 THEN Eligible \div 4 ELSE 5

\* A last segment as long as the others.
SegmentLength_Whole(segmentStart, eligible, segmentSize) == segmentSize

\* segmentLength (2005-2006)
SegmentLength(segmentStart, eligible, segmentSize) ==
  Min(segmentStart + segmentSize, eligible) - segmentStart

\* The values of segmentStart + i in the order the two loops (2004, 2038)
\* go through them.
RECURSIVE SegmentIndices(_, _, _)
SegmentIndices(segmentStart, eligible, segmentSize) ==
  IF ~(segmentStart < eligible) THEN <<>>
  ELSE LET segmentLength == SegmentLength(segmentStart, eligible, segmentSize)
       IN [k \in 1..segmentLength |-> segmentStart + (k - 1)]
            \o SegmentIndices(segmentStart + segmentSize, eligible, segmentSize)

\* generateAdaptiveSequence, one iteration of 2038-2071: the next stimulus
\* of the two loops, the plan of the segments laid end to end.
MaterializeAdaptive ==
  /\ genStage = "materialize"
  /\ genArgs.kind = "adaptive"
  /\ LET indices == SegmentIndices(0, Eligible, SegmentSize)
         iteration == Len0(genSequence) - genArgs.nLevel + 1
         absoluteIndex == genArgs.nLevel + indices[iteration]
     IN /\ iteration <= Len(indices)
        /\ PushStimulus(absoluteIndex, indices[iteration], iteration = Len(indices))
  /\ UNCHANGED <<genArgs, drawWidth, cepArgs, placeVars, breakVars, nonGenVars>>

GenIdle ==
  /\ BreakIdle
  /\ genArgs = [kind |-> "engaging", length |-> 0, gridSize |-> 3, nLevel |-> 1,
                difficulty |-> "medium"]
  /\ genSequence = <<>>
  /\ drawWidth = [position |-> 1, audio |-> 1]
  /\ genStage = "idle"
  /\ cepArgs = [length |-> 0, positionMatches |-> 0, audioMatches |-> 0,
                maxConsecutive |-> 1, minGap |-> 1, nLevel |-> 1]
  /\ plan = [position |-> <<>>, audio |-> <<>>]
  /\ PlaceIdle

\* ---- generateEngagingSequence (gameLogic.ts 2084-2176) ----
\* x * k for a double x and an integer 0 <= k < LimbBase.
DoubleMulInt(x, k) == RoundNat(TrimNat(MulSmall(x.m, k, 0)), x.q, FALSE)

RECURSIVE IntOfNat(_)
IntOfNat(N) == IF N = <<>> THEN 0 ELSE N[1] + LimbBase * IntOfNat(Tail(N))

\* Math.round of a double x >= 0: floor(x + 1/2), exactly.
MathRound(x) ==
  IF x.m = <<>> THEN 0
  ELSE IF x.q >= 0 THEN IntOfNat(ShiftLeft(x.m, x.q))
  ELSE IntOfNat(ShiftRight(AddNat(x.m, ShiftLeft(<<1>>, -x.q - 1), 0), -x.q, FALSE).n)

\* Math.round(eligibleStimuli * settings.position) (2116-2117)
TargetFor(eligible, difficulty) ==
  MathRound(DoubleMulInt(DoubleOfRatio(Profiles[difficulty].rate, 100), eligible))

\* The first n stimuli (2105-2111), of the draws those that step by a fixed
\* stride.
FirstStimuli(n, gridSize, strides) ==
  {[i \in 0..(n - 1) |-> [position |-> (stride * i) % (gridSize * gridSize),
                          audio |-> (stride * i) % (MaxAudio + 1)]] :
     stride \in strides}

GenArgs(kind, length, gridSize, n, difficulty) ==
  [kind |-> kind, length |-> length, gridSize |-> gridSize, nLevel |-> n,
   difficulty |-> difficulty]

\* The state at the call of createEngagementPattern (2120-2127).
EngagingCalled(args, strides) ==
  LET eligible == args.length - args.nLevel
      settings == Profiles[args.difficulty]
  IN /\ genArgs = args
     /\ genSequence \in FirstStimuli(args.nLevel, args.gridSize, strides)
     /\ cepArgs = [length |-> eligible,
                   positionMatches |-> TargetFor(eligible, args.difficulty),
                   audioMatches |-> TargetFor(eligible, args.difficulty),
                   maxConsecutive |-> settings.maxConsecutive,
                   minGap |-> settings.minGap, nLevel |-> args.nLevel]
     /\ genStage = "position"
     /\ plan = [position |-> <<>>, audio |-> <<>>]
     /\ pattern = AllFalse(eligible)
     /\ placed = 0
     /\ lastPlaced = -settings.minGap - 1
     /\ slotsLeft = 0..(eligible - 1)
     /\ BreakIdle


\* ---------------------------------------------------------------------------
\* AdaptiveSequenceGenerator (utils/gameLogic.ts 2969-3310).  A generator is
\* the record of its fields; a method is an operator from the fields at the
\* call, and the outcomes of its random draws, to the fields at the return
\* and the value returned.  baseSequence, recentPositions and recentAudios
\* are functions on 0..(length - 1).
\* ---------------------------------------------------------------------------
\* createAdaptiveGenerator (3292-3296), the rates and the bonus in hundredths.
DifficultySettings ==
  [easy |-> [rate |-> 35, maxConsecutive |-> 1, minGap |-> 2, overlapBonus |-> 5],
   medium |-> [rate |-> 30, maxConsecutive |-> 2, minGap |-> 1, overlapBonus |-> 10],
   hard |-> [rate |-> 25, maxConsecutive |-> 3, minGap |-> 1, overlapBonus |-> 15]]

\* The config createAdaptiveGenerator builds (3300-3306).
AdaptiveConfig(n, gridSize, difficulty) ==
  LET settings == DifficultySettings[difficulty]
  IN [nLevel |-> n, gridSize |-> gridSize, difficulty |-> difficulty,
      segmentSize |-> 5,
      targetPositionMatchRate |-> DoubleOfRatio(settings.rate, 100),
      targetAudioMatchRate |-> DoubleOfRatio(settings.rate, 100),
      maxConsecutive |-> settings.maxConsecutive,
      minGap |-> settings.minGap,
      overlapBonus |-> DoubleOfRatio(settings.overlapBonus, 100)]

\* this.maxPosition and this.maxAudio (2976-2977).
maxPosition(g) == g.maxPosition
maxAudio(g) == 7

\* selectMatchIndices (3059-3063): the first targetMatches entries of a
\* shuffle of 0..segmentSize-1, any set of that many indices.
selectMatchIndices(segmentSize, targetMatches) ==
  {S \in SUBSET (0..(segmentSize - 1)) :
     Cardinality(S) = Min(targetMatches, segmentSize)}

\* Of those sets, the ones the shuffles followed for a channel give.
Selected(segmentSize, targetMatches, channel) ==
  {S \in selectMatchIndices(segmentSize, targetMatches) :
     \/ AllShuffles[channel]
     \/ S = 0..(Cardinality(S) - 1)
     \/ S = (segmentSize - Cardinality(S))..(segmentSize - 1)}

\* Math.round(segmentSize * rate) (3023-3024).
SegmentTarget(config, channel) ==
  MathRound(DoubleMulInt(IF channel = "position"
                           THEN config.targetPositionMatchRate
                           ELSE config.targetAudioMatchRate,
                         config.segmentSize))

\* The outcomes of the two calls of selectMatchIndices in planNextSegment; a
\* channel whose target is 0 makes no call (3031, 3039).
PlanChoices(config) ==
  LET choices(channel) ==
        LET target == SegmentTarget(config, channel)
        IN IF target > 0 THEN Selected(config.segmentSize, target, channel)
           ELSE {{}}
  IN {[position |-> p, audio |-> a] : p \in choices("position"),
                                      a \in choices("audio")}

\* planNextSegment (3018-3054): both sets cleared, then filled from
\* generatedCount on.  The field startIndex remembers the local constant of
\* that name (3019): the plan in force covers startIndex up to
\* startIndex + segmentSize - 1.
planNextSegment(g, indices) ==
  LET startIndex == g.generatedCount
  IN [g EXCEPT !.nextSegmentMatches =
        [position |-> {startIndex + idx : idx \in indices.position},
         audio |-> {startIndex + idx : idx \in indices.audio}],
                !.startIndex = startIndex]

\* generateInitialStimuli (2998-3013): the stimuli pushed one by one.
RECURSIVE generateInitialStimuli(_, _, _)
generateInitialStimuli(g, stimuli, i) ==
  IF ~(i < g.currentConfig.nLevel) THEN g
  ELSE generateInitialStimuli(
         [g EXCEPT !.baseSequence = Push(@, stimuli[i]),
                   !.recentPositions = Push(@, stimuli[i].position),
                   !.recentAudios = Push(@, stimuli[i].audio),
                   !.generatedCount = @ + 1],
         stimuli, i + 1)

\* The constructor (2975-2993).
NewGenerator(config, stimuli, indices) ==
  planNextSegment(
    generateInitialStimuli(
      [maxPosition |-> config.gridSize * config.gridSize - 1,
       generatedCount |-> 0, recentPositions |-> <<>>, recentAudios |-> <<>>,
       currentConfig |-> config,
       nextSegmentMatches |-> [position |-> {}, audio |-> {}],
       startIndex |-> 0,
       baseSequence |-> <<>>],
      stimuli, 0),
    indices)

\* reset (3266-3280): a new state object and a new baseSequence for this
\* instance; maxPosition and maxAudio stay the constructor's.
reset(g, config, stimuli, indices) ==
  planNextSegment(
    generateInitialStimuli(
      [g EXCEPT !.generatedCount = 0,
                !.recentPositions = <<>>,
                !.recentAudios = <<>>,
                !.currentConfig = config,
                !.nextSegmentMatches = [position |-> {}, audio |-> {}],
                !.baseSequence = <<>>],
      stimuli, 0),
    indices)

\* The n-back value of a channel at the cursor.
Channel(stimulus, channel) ==
  IF channel = "position" THEN stimulus.position ELSE stimulus.audio
MaxValue(g, channel) == IF channel = "position" THEN maxPosition(g) ELSE maxAudio(g)
NBack(g, channel) ==
  Channel(g.baseSequence[g.generatedCount - g.currentConfig.nLevel], channel)

\* The values getNextStimulus can give a channel (3084-3106): the n-back
\* value on a planned match, otherwise what the do-while loop lets through,
\* of which the model follows the first GeneratorDraws[channel].
NextValues(g, channel) ==
  LET currentIndex == g.generatedCount
      n == g.currentConfig.nLevel
      shouldMatch == currentIndex \in g.nextSegmentMatches[channel]
  IN IF shouldMatch /\ currentIndex >= n THEN {NBack(g, channel)}
     ELSE IF currentIndex >= n
       THEN Draws((0..MaxValue(g, channel)) \ {NBack(g, channel)}, NBack(g, channel),
                  MaxValue(g, channel), GeneratorDraws[channel])
       ELSE Draws(0..MaxValue(g, channel), 0, MaxValue(g, channel),
                  GeneratorDraws[channel])

\* The values peekNextStimulus can give a channel (3157-3167): its draw is
\* not tested against the n-back value.
PeekValues(g, channel) ==
  LET currentIndex == g.generatedCount
      n == g.currentConfig.nLevel
      shouldMatch == currentIndex \in g.nextSegmentMatches[channel]
  IN IF shouldMatch /\ currentIndex >= n THEN {NBack(g, channel)}
     ELSE Draws(0..MaxValue(g, channel),
                IF currentIndex >= n THEN NBack(g, channel) ELSE 0,
                MaxValue(g, channel), PeekDraws[channel])

\* A generator that plans only in its constructor and in updateConfig.
PlansNext_Never(g) == FALSE

\* Whether getNextStimulus plans the next segment before it returns (3131-3132).
PlansNext(g) ==
  LET currentIndex == g.generatedCount
      config == g.currentConfig
  IN ~(currentIndex < Len0(g.baseSequence))
     /\ (currentIndex - config.nLevel) % config.segmentSize = config.segmentSize - 1

\* getNextStimulus (3068-3137), its draws given.
getNextStimulus(g, position, audio, indices) ==
  LET currentIndex == g.generatedCount
      stimulus == [position |-> position, audio |-> audio]
      pushed == [g EXCEPT !.baseSequence = Push(@, stimulus),
                          !.recentPositions = Push(@, position),
                          !.recentAudios = Push(@, audio),
                          !.generatedCount = @ + 1]
  IN IF currentIndex < Len0(g.baseSequence)
       THEN [state |-> g, result |-> g.baseSequence[currentIndex]]
       ELSE [state |-> IF PlansNext(g) THEN planNextSegment(pushed, indices)
                       ELSE pushed,
             result |-> stimulus]

\* A peek that stores what it made.
peekNextStimulus_Advancing(g, position, audio) ==
  getNextStimulus(g, position, audio, [position |-> {}, audio |-> {}])

\* peekNextStimulus (3142-3174), its draws given.
peekNextStimulus(g, position, audio) ==
  LET currentIndex == g.generatedCount
  IN IF currentIndex < Len0(g.baseSequence)
       THEN [state |-> g, result |-> g.baseSequence[currentIndex]]
       ELSE [state |-> g, result |-> [position |-> position, audio |-> audio]]

\* The literals of updateConfig as doubles.
MissedRateLow == DoubleOfRatio(1, 10)
MissedRateHigh == DoubleOfRatio(3, 10)
MultiplierUp == DoubleOfRatio(12, 10)
MultiplierDown == DoubleOfRatio(8, 10)
MultiplierOne == DoubleOfRatio(1, 1)
RateFloor == DoubleOfRatio(15, 100)
RateCeiling == DoubleOfRatio(45, 100)
BonusStep == DoubleOfRatio(5, 100)
BonusCeiling == DoubleOfRatio(2, 10)

\* The branch updateConfig takes (3181-3200).
ConfigAdjustment(snapshot) ==
  LET missedRate == IF snapshot.totalResponses > 0
                      THEN DoubleOfRatio(snapshot.missedResponses, snapshot.totalResponses)
                      ELSE DoubleZero
  IN IF snapshot.accuracy > 85 /\ DoubleLess(missedRate, MissedRateLow)
       THEN "increase"
     ELSE IF snapshot.accuracy < 60 \/ DoubleLess(MissedRateHigh, missedRate)
       THEN "decrease"
     ELSE "maintain"

\* matchRateMultiplier (3184, 3190, 3195).
MatchRateMultiplier(adjustment) ==
  CASE adjustment = "increase" -> MultiplierUp
    [] adjustment = "decrease" -> MultiplierDown
    [] OTHER -> MultiplierOne

\* Mutant of AdjustedRate: the product is not limited.
AdjustedRate_Unlimited(rate, adjustment) ==
  DoubleMul(rate, MatchRateMultiplier(adjustment))

\* Math.max(0.15, Math.min(0.45, rate * matchRateMultiplier)) (3204-3209)
AdjustedRate(rate, adjustment) ==
  DoubleMax(RateFloor,
            DoubleMin(RateCeiling, DoubleMul(rate, MatchRateMultiplier(adjustment))))

\* Math.max(0, Math.min(0.2, overlapBonus + complexityAdjustment)) (3210-3212),
\* complexityAdjustment being 0.05, -0.05 or 0.
AdjustedBonus(bonus, adjustment) ==
  CASE adjustment = "increase" -> DoubleMin(BonusCeiling, DoubleAdd(bonus, BonusStep))
    [] adjustment = "decrease" ->
         IF DoubleLess(bonus, BonusStep) THEN DoubleZero
         ELSE DoubleMin(BonusCeiling, DoubleSub(bonus, BonusStep))
    [] OTHER -> DoubleMin(BonusCeiling, bonus)

\* The config updateConfig installs (3203-3214).
NewConfig(config, snapshot) ==
  LET adjustment == ConfigAdjustment(snapshot)
  IN [config EXCEPT
        !.targetPositionMatchRate = AdjustedRate(@, adjustment),
        !.targetAudioMatchRate = AdjustedRate(@, adjustment),
        !.overlapBonus = AdjustedBonus(@, adjustment)]

\* An update that starts the sequence over from its first nLevel stimuli.
InstallConfig_Restarts(g, newConfig, indices) ==
  LET n == g.currentConfig.nLevel
      kept(f) == [i \in 0..(n - 1) |-> f[i]]
  IN planNextSegment([g EXCEPT !.currentConfig = newConfig,
                               !.baseSequence = kept(@),
                               !.recentPositions = kept(@),
                               !.recentAudios = kept(@),
                               !.generatedCount = n],
                     indices)

\* The writes of updateConfig (3214-3217): the new config, then the plan.
InstallConfig(g, newConfig, indices) ==
  planNextSegment([g EXCEPT !.currentConfig = newConfig], indices)

\* updateConfig (3179-3227).
updateConfig(g, snapshot, indices) ==
  InstallConfig(g, NewConfig(g.currentConfig, snapshot), indices)

\* getGeneratedSequence (3259-3261)
getGeneratedSequence(g) == g.baseSequence

\* ---- the calls made on the generators ----
Called(id, op, result) == [on |-> id, op |-> op, result |-> result]
NoResult == [position |-> -1, audio |-> -1]

\* getNextStimulus on a generator that has returned fewer than cap stimuli.
GetNextStimulusWithin(cap) ==
  /\ \E id \in DOMAIN generators :
       LET g == generators[id]
       IN /\ g.generatedCount < g.currentConfig.nLevel + cap
          /\ \E position \in NextValues(g, "position"),
                audio \in NextValues(g, "audio"),
                indices \in IF PlansNext(g) THEN PlanChoices(g.currentConfig)
                            ELSE {[position |-> {}, audio |-> {}]} :
               LET r == getNextStimulus(g, position, audio, indices)
               IN /\ generators' = [generators EXCEPT ![id] = r.state]
                  /\ lastCall' = Called(id, "getNextStimulus", r.result)
  /\ UNCHANGED <<updatesLeft, nonAsgVars>>

GetNextStimulus == GetNextStimulusWithin(MaxGenerated)

PeekNextStimulus ==
  /\ \E id \in DOMAIN generators :
       LET g == generators[id]
       IN \E position \in PeekValues(g, "position"),
             audio \in PeekValues(g, "audio") :
            LET r == peekNextStimulus(g, position, audio)
            IN /\ generators' = [generators EXCEPT ![id] = r.state]
               /\ lastCall' = Called(id, "peekNextStimulus", r.result)
  /\ UNCHANGED <<updatesLeft, nonAsgVars>>

\* The configs handed to the constructor and to reset (3292-3309).
ResetConfigs == {AdaptiveConfig(1, 3, "medium")}

\* The snapshots handed to updateConfig: one for each side of each test.
ConfigSnapshots ==
  {[accuracy |-> s[1], missedResponses |-> s[2], totalResponses |-> s[3]] :
     s \in {<<90, 0, 0>>, <<90, 1, 10>>, <<70, 4, 10>>, <<50, 0, 10>>}}

UpdateConfig ==
  /\ updatesLeft > 0
  /\ updatesLeft' = updatesLeft - 1
  /\ \E id \in DOMAIN generators, snapshot \in ConfigSnapshots :
       LET g == generators[id]
           newConfig == NewConfig(g.currentConfig, snapshot)
       IN \E indices \in PlanChoices(newConfig) :
            /\ generators' = [generators EXCEPT ![id] = InstallConfig(g, newConfig, indices)]
            /\ lastCall' = Called(id, "updateConfig", NoResult)
  /\ UNCHANGED nonAsgVars

\* Mutant of Reset: the state reset is the one of every instance, as it is
\* when the state lives at module level.
Reset_EveryInstance ==
  /\ \E id \in DOMAIN generators, config \in ResetConfigs :
       \E stimuli \in FirstStimuli(config.nLevel, config.gridSize, {1}),
          indices \in PlanChoices(config) :
         /\ generators' = [other \in DOMAIN generators |->
                             reset(generators[other], config, stimuli, indices)]
         /\ lastCall' = Called(id, "reset", NoResult)
  /\ UNCHANGED <<updatesLeft, nonAsgVars>>

Reset ==
  /\ \E id \in DOMAIN generators, config \in ResetConfigs :
       \E stimuli \in FirstStimuli(config.nLevel, config.gridSize, {1}),
          indices \in PlanChoices(config) :
         /\ generators' = [generators EXCEPT
                             ![id] = reset(@, config, stimuli, indices)]
         /\ lastCall' = Called(id, "reset", NoResult)
  /\ UNCHANGED <<updatesLeft, nonAsgVars>>

AsgIdle ==
  /\ generators = <<>>
  /\ lastCall = Called(0, "none", NoResult)
  /\ updatesLeft = 0

\* ---------------------------------------------------------------------------
\* The pure helpers of utils/gameLogic.ts, each applied to the arguments of
\* callArgs with its outcome left in callResult.
\* ---------------------------------------------------------------------------
Returned(value) == [done |-> TRUE, threw |-> FALSE, value |-> value]
\* A TypeError: a property read of undefined.
Threw == [done |-> TRUE, threw |-> TRUE, value |-> FALSE]
\* The call not made yet.
Pending == [done |-> FALSE, threw |-> FALSE, value |-> FALSE]

CallIdle ==
  /\ callArgs = [fn |-> "none"]
  /\ callResult = Pending

\* shouldPositionMatch (2442-2450) and shouldAudioMatch (2455-2463), channel
\* the property they compare; sequence is a function on 0..(length - 1), and
\* sequence[i] is undefined for every other i.
ShouldMatch(seq, currentIndex, n, channel) ==
  LET nBackIndex == currentIndex - n
  IN IF nBackIndex < 0 THEN Returned(FALSE)
     ELSE IF currentIndex \notin DOMAIN seq THEN Threw
     ELSE IF nBackIndex \notin DOMAIN seq THEN Threw
     ELSE Returned(Channel(seq[currentIndex], channel) = Channel(seq[nBackIndex], channel))

shouldPositionMatch(seq, currentIndex, n) == ShouldMatch(seq, currentIndex, n, "position")
shouldAudioMatch(seq, currentIndex, n) == ShouldMatch(seq, currentIndex, n, "audio")

CallShouldMatch ==
  /\ callArgs.fn \in {"shouldPositionMatch", "shouldAudioMatch"}
  /\ ~callResult.done
  /\ callResult' = IF callArgs.fn = "shouldPositionMatch"
                     THEN shouldPositionMatch(callArgs.sequence, callArgs.currentIndex,
                                              callArgs.nLevel)
                     ELSE shouldAudioMatch(callArgs.sequence, callArgs.currentIndex,
                                           callArgs.nLevel)
  /\ UNCHANGED <<callArgs, nonCallVars>>

\* ---- calculateAdaptiveAdjustments (gameLogic.ts 1659-1744) ----
\* Its quantities are rationals of small denominators and are kept exact: an
\* average accuracy in sixtieths, a trend in 200ths, a matchRateMultiplier in
\* MultiplierUnit-ths, a complexityBonus in BonusUnit-ths and a
\* confidenceLevel in ConfidenceUnit-ths; the snapshots carry integer
\* accuracies and response times, for which no test of the function falls
\* on a rounding.  The mean of the missed rates, which is only compared, is
\* computed in Number arithmetic.
MultiplierUnit == 900000
BonusUnit == 36000
ConfidenceUnit == 30000

RECURSIVE SumOf(_, _)
SumOf(s, field) == IF s = <<>> THEN 0 ELSE s[1][field] + SumOf(Tail(s), field)

\* reduce((sum, p) => sum + p.missedResponses / p.totalResponses, 0) in
\* Number arithmetic; 0 / 0 is NaN, and so is every sum with it.
RECURSIVE MissedSum(_)
MissedSum(s) ==
  IF s = <<>> THEN [nan |-> FALSE, sum |-> DoubleZero]
  ELSE LET rest == MissedSum(SubSeq(s, 1, Len(s) - 1))
           p == s[Len(s)]
       IN IF rest.nan \/ p.totalResponses = 0
            THEN [nan |-> TRUE, sum |-> DoubleZero]
            ELSE [nan |-> FALSE,
                  sum |-> DoubleAdd(rest.sum,
                                    DoubleOfRatio(p.missedResponses, p.totalResponses))]

Floor(a, b) == a \div b
Abs(a) == IF a < 0 THEN -a ELSE a

\* The adjustments before the clamps of the return statement (1672-1734).
RawAdjustments(history, n) ==
  LET recentPerformance == SliceLast(history, 5)
      len == Len(recentPerformance)
      avgAccuracy60 == (SumOf(recentPerformance, "accuracy") * 60) \div len
      sumResponseTime == SumOf(recentPerformance, "responseTime")
      missed == MissedSum(recentPerformance)
      trend200 ==
        IF len >= 3
          THEN SumOf(SliceLast(recentPerformance, 2), "accuracy")
                 - SumOf(SubSeq(recentPerformance, 1, 2), "accuracy")
          ELSE 0
      targetAccuracy == Max(60, 85 - (n - 2) * 5)
      maxResponseTime == 1500 + (n - 2) * 200
      d60 == avgAccuracy60 - targetAccuracy * 60
      excellent == d60 > 15 * 60
      poor == d60 < -15 * 60
      \* accuracy (1697-1708)
      m1 == IF excellent THEN Min(13 * (MultiplierUnit \div 10),
                                  MultiplierUnit + d60 * (MultiplierUnit \div 6000))
            ELSE IF poor THEN Max(6 * (MultiplierUnit \div 10),
                                  MultiplierUnit - (-d60) * (MultiplierUnit \div 9000))
            ELSE MultiplierUnit
      c1 == IF excellent THEN Min(15 * (BonusUnit \div 100), d60 * (BonusUnit \div 12000))
            ELSE IF poor THEN Max(-(BonusUnit \div 10), -((-d60) * (BonusUnit \div 18000)))
            ELSE 0
      p1 == IF excellent THEN Max(-1, -Floor(d60, 20 * 60))
            ELSE IF poor THEN Min(2, Floor(-d60, 15 * 60))
            ELSE 0
      \* response time (1711-1715)
      slow == sumResponseTime > maxResponseTime * len
      m2 == IF slow THEN (m1 * 9) \div 10 ELSE m1
      p2 == IF slow THEN p1 + 1 ELSE p1
      \* missed responses (1718-1723)
      manyMissed == ~missed.nan
                    /\ DoubleLess(MissedRateHigh, DoubleDivInt(missed.sum, len))
      m3 == IF manyMissed THEN (m2 * 4) \div 5 ELSE m2
      c3 == IF manyMissed THEN c1 - BonusUnit \div 20 ELSE c1
      p3 == IF manyMissed THEN p2 + 1 ELSE p2
      \* trend (1726-1734)
      m4 == IF trend200 > 20 THEN m3 + trend200 * (MultiplierUnit \div 1000)
            ELSE IF trend200 < -20 THEN m3 + 3 * trend200 * (MultiplierUnit \div 2000)
            ELSE m3
      c4 == IF trend200 > 20 THEN c3 + trend200 * (BonusUnit \div 2000)
            ELSE IF trend200 < -20 THEN c3 + 3 * trend200 * (BonusUnit \div 4000)
            ELSE c3
      \* confidence (1737-1738)
      confidence == len * (6000 - Abs(d60))
  IN [matchRateMultiplier |-> m4, complexityBonus |-> c4,
      pacingAdjustment |-> p3, confidenceLevel |-> confidence]

\* The return statement without its clamps.
Clamped_Not(raw) == raw

\* The clamps of the return statement (1740-1745).
Clamped(raw) ==
  [matchRateMultiplier |->
     Max(MultiplierUnit \div 2, Min(3 * (MultiplierUnit \div 2), raw.matchRateMultiplier)),
   complexityBonus |->
     Max(-(BonusUnit \div 10), Min(BonusUnit \div 5, raw.complexityBonus)),
   pacingAdjustment |-> Max(-1, Min(2, raw.pacingAdjustment)),
   confidenceLevel |-> Max(0, Min(ConfidenceUnit, raw.confidenceLevel))]

calculateAdaptiveAdjustments(history, n) ==
  IF Len(history) = 0
    THEN [matchRateMultiplier |-> MultiplierUnit, complexityBonus |-> 0,
          pacingAdjustment |-> 0, confidenceLevel |-> 0]
    ELSE Clamped(RawAdjustments(history, n))

\* The snapshots a history handed to calculateAdaptiveAdjustments is made
\* of: excellent, poor and slow with misses, one without a possible
\* response, and one in between.
AdjustSnapshots ==
  {[accuracy |-> s[1], responseTime |-> s[2], missedResponses |-> s[3],
    totalResponses |-> s[4]] :
     s \in {<<100, 500, 0, 10>>, <<0, 4000, 5, 10>>, <<40, 500, 0, 0>>,
            <<70, 500, 4, 10>>}}
AdjustLevels == {1, 2, MaxSliderLevel}

\* One snapshot more in the history, and the adjustments computed from it.
CallAdjustments ==
  /\ callArgs.fn = "calculateAdaptiveAdjustments"
  /\ Len(callArgs.performanceHistory) < MaxAdjustHistory
  /\ \E s \in AdjustSnapshots :
       /\ callArgs' = [callArgs EXCEPT !.performanceHistory = Append(@, s)]
       /\ callResult' = Returned(calculateAdaptiveAdjustments(
                                   callArgs'.performanceHistory, callArgs.nLevel))
  /\ UNCHANGED nonCallVars

\* ---- createPerformanceSnapshot (gameLogic.ts 217-278), the variant that
\* takes currentRound, with its calculateAccuracy (584-595) ----
\* A quotient of two integers, kept exact.
Ratio(num, den) == [num |-> num, den |-> den]

\* calculateAccuracy(correct, incorrect, missed, totalRounds)
calculateAccuracy(correct, incorrect, missed, rounds) ==
  LET correctNonResponses == rounds - correct - incorrect - missed
      totalSuccess == correct + Max(0, correctNonResponses)
      totalAttempts == rounds
  IN IF totalAttempts = 0 THEN Ratio(0, 1)
     ELSE Ratio(totalSuccess * 100, totalAttempts)

\* r.type as a condition: undefined is falsy.
Typed(r) == Has(r, "type") /\ r.type # NoResponse
RecentCorrect(r) == Has(r, "correct") /\ r.correct = TRUE
RecentIncorrect(r) == Has(r, "correct") /\ r.correct = FALSE /\ Typed(r)
RecentMissed(r) == Has(r, "correct") /\ r.correct = FALSE /\ ~Typed(r)

\* responses.slice(-timeWindow); slice(-0) is the whole array.
SliceWindow(s, timeWindow) == IF timeWindow = 0 THEN s ELSE SliceLast(s, timeWindow)

createPerformanceSnapshotInRound(resp, round, timeWindow) ==
  LET recentResponses == SliceWindow(resp, timeWindow)
      recentCorrect == Cardinality({i \in 1..Len(recentResponses) :
                                      RecentCorrect(recentResponses[i])})
      recentIncorrect == Cardinality({i \in 1..Len(recentResponses) :
                                        RecentIncorrect(recentResponses[i])})
      recentMissed == Cardinality({i \in 1..Len(recentResponses) :
                                     RecentMissed(recentResponses[i])})
      recentTotalRounds == Min(timeWindow, round)
  IN IF Len(recentResponses) = 0
       THEN [accuracy |-> Ratio(0, 1), missedResponses |-> 0, totalResponses |-> 0]
       ELSE [accuracy |-> calculateAccuracy(recentCorrect, recentIncorrect,
                                             recentMissed, recentTotalRounds),
             missedResponses |-> recentMissed,
             totalResponses |-> recentTotalRounds]

\* The entries of a response log: answered or not, correct or not.
LogEntries ==
  {ResponseEntry(type, 0, correct) :
     type \in {"position", NoResponse}, correct \in BOOLEAN}
ResponseLogs == UNION {[1..len -> LogEntries] : len \in 0..MaxSnapshotLog}

CallSnapshot ==
  /\ callArgs.fn = "createPerformanceSnapshot"
  /\ ~callResult.done
  /\ callResult' = Returned(createPerformanceSnapshotInRound(
                              callArgs.responses, callArgs.currentRound,
                              callArgs.timeWindow))
  /\ UNCHANGED <<callArgs, nonCallVars>>

\* ---- calculateAccuracy called with three counts ----
\* The export of two parameters (gameLogic.ts 68-72, 1357-1361, 2485-2489):
\* a third argument is ignored.
calculateAccuracyOfTyped(correct, incorrect) ==
  LET total == correct + incorrect
  IN IF total = 0 THEN [nan |-> FALSE, value |-> Ratio(0, 1)]
     ELSE [nan |-> FALSE, value |-> Ratio(correct * 100, total)]

\* The export of four parameters (584-595) with totalRounds left undefined:
\* undefined - correct is NaN, Math.max(0, NaN) is NaN, undefined === 0 is
\* false, and the quotient returned is NaN.
calculateAccuracyOfThree(correct, incorrect, missed) ==
  [nan |-> TRUE, value |-> Ratio(0, 1)]

\* The exports of the name.
AccuracyVariants == {"typed", "rounds"}

CallAccuracy ==
  /\ callArgs.fn = "calculateAccuracy"
  /\ ~callResult.done
  /\ callResult' = Returned(
       IF callArgs.variant = "typed"
         THEN calculateAccuracyOfTyped(callArgs.correct, callArgs.incorrect)
         ELSE calculateAccuracyOfThree(callArgs.correct, callArgs.incorrect,
                                       callArgs.missed))
  /\ UNCHANGED <<callArgs, nonCallVars>>

\* ---------------------------------------------------------------------------
\* Statistics store (stores/statsStore.ts)
\* ---------------------------------------------------------------------------
\* A JSON value, as JSON.parse returns it: its kind and what it holds.  An
\* object holds a record of its properties; a property it does not have
\* reads as JsonUndefined.
JsonValue(kind, value) == [kind |-> kind, value |-> value]
JsonUndefined == JsonValue("undefined", 0)
JsonNull == JsonValue("null", 0)

\* if (v): null, undefined, 0 and "" are the falsy ones.
IsTruthy(v) ==
  ~ \/ v.kind \in {"undefined", "null"}
    \/ v.kind = "number" /\ v.value = 0
    \/ v.kind = "string" /\ v.value = ""

\* initialStats (77-86), and the statistics after some completed sessions,
\* as a document carries them.
StatsOf(games) ==
  JsonValue("object",
            [sessions |-> games, totalGamesPlayed |-> games, averageScore |-> 0,
             bestScore |-> 0, currentStreak |-> 0, longestStreak |-> 0,
             totalPlayTime |-> 0, nLevelProgress |-> <<>>])
initialStats == StatsOf(0)

\* achievementConditions (6-16): the ids that have a condition function.
AchievementIds ==
  <<"first_game", "perfect_score", "ten_games", "level_5", "streak_7",
    "hour_played">>

IdsWithCondition == {AchievementIds[i] : i \in DOMAIN AchievementIds}

\* An achievement: its id, whether it is unlocked, and the condition function
\* it carries, named by the id it belongs to ("never" is () => false).  The
\* name, description and icon play no part.
Achievement(id, unlocked, condition) ==
  [id |-> id, unlocked |-> unlocked, condition |-> condition]

\* defaultAchievements (18-67)
defaultAchievements ==
  [i \in DOMAIN AchievementIds |->
     Achievement(AchievementIds[i], FALSE, AchievementIds[i])]

\* restoreAchievementConditions (70-75), of a list of achievement objects.
restoreAchievementConditions(list) ==
  [i \in DOMAIN list |->
     Achievement(list[i].id, list[i].unlocked,
                 IF list[i].id \in IdsWithCondition THEN list[i].id
                 ELSE "never")]

\* The text handed to importStats: text that is no JSON document, or the
\* serialisation of a document.
Unparsable == [wellFormed |-> FALSE, document |-> JsonNull]
TextOf(document) == [wellFormed |-> TRUE, document |-> document]

\* JSON.parse(data): the document, or a SyntaxError.
JSONParse(data) ==
  IF data.wellFormed THEN Returned(data.document) ELSE Threw

\* parsed.name: a TypeError on null, undefined on a value that is no object
\* or has no such property.
Property(parsed, name) ==
  IF parsed.kind \in {"null", "undefined"} THEN Threw
  ELSE IF parsed.kind = "object" /\ name \in DOMAIN parsed.value
    THEN Returned(parsed.value[name])
  ELSE Returned(JsonUndefined)

InvalidFormat == "Invalid stats data format"
NoError == "none"

StatsState(s, a, error) == [stats |-> s, achievements |-> a, error |-> error]

\* The second half of the try block (214-217), the store's stats being s:
\* only an array has a map method.
importAchievements(s, a, parsed) ==
  LET field == Property(parsed, "achievements").value
  IN IF ~IsTruthy(field) THEN StatsState(s, a, NoError)
     ELSE IF field.kind # "array" THEN StatsState(s, a, InvalidFormat)
     ELSE StatsState(s, restoreAchievementConditions(field.value), NoError)

\* importStats (208-222): the stats and achievements of the store after the
\* call, and the error it throws.  Each set() is in force when a later
\* statement throws.
importStats(s, a, data) ==
  LET parsed == JSONParse(data)
  IN IF parsed.threw THEN StatsState(s, a, InvalidFormat)
     ELSE IF Property(parsed.value, "stats").threw
       THEN StatsState(s, a, InvalidFormat)
     ELSE importAchievements(
            IF IsTruthy(Property(parsed.value, "stats").value)
              THEN Property(parsed.value, "stats").value ELSE s,
            a, parsed.value)

\* The documents imported: null, a number, and objects with and without
\* each of the two properties, the achievements an array or not.
ImportedAchievements ==
  <<[id |-> "first_game", unlocked |-> TRUE],
    [id |-> "custom", unlocked |-> TRUE]>>

StatsFields == <<JsonUndefined, StatsOf(3), StatsOf(7)>>
AchievementsFields ==
  <<JsonUndefined, JsonValue("array", ImportedAchievements),
    JsonValue("array", <<>>), JsonValue("string", "none"),
    JsonValue("string", ""), JsonValue("number", 0), JsonValue("number", 6),
    JsonValue("object", [first_game |-> TRUE])>>

Documents ==
  <<JsonNull, JsonValue("number", 6)>>
    \o [k \in 1..(Len(StatsFields) * Len(AchievementsFields)) |->
          JsonValue("object",
                    [stats |-> StatsFields[((k - 1) \div Len(AchievementsFields)) + 1],
                     achievements |->
                       AchievementsFields[((k - 1) % Len(AchievementsFields)) + 1]])]

ImportData == <<Unparsable>> \o [k \in DOMAIN Documents |-> TextOf(Documents[k])]

StatsCall(op, data, error) == [op |-> op, data |-> data, error |-> error]

ImportStats ==
  /\ \E k \in DOMAIN ImportData :
       LET data == ImportData[k]
           after == importStats(stats, achievements, data)
       IN /\ stats' = after.stats
          /\ achievements' = after.achievements
          /\ lastStatsCall' = StatsCall("importStats", data, after.error)
  /\ UNCHANGED nonStatsVars

\* clearStats (196-201)
ClearStats ==
  /\ stats' = initialStats
  /\ achievements' =
       [i \in DOMAIN defaultAchievements |->
          [defaultAchievements[i] EXCEPT !.unlocked = FALSE]]
  /\ lastStatsCall' = StatsCall("clearStats", Unparsable, NoError)
  /\ UNCHANGED nonStatsVars

\* The store as created (182-183), no call made.
StatsIdle ==
  /\ stats = initialStats
  /\ achievements = defaultAchievements
  /\ lastStatsCall = StatsCall("none", Unparsable, NoError)

\* ---------------------------------------------------------------------------
\* Initial states and specifications
\* ---------------------------------------------------------------------------
InitGame(cap) ==
  /\ clockCap = cap
  /\ nLevel = 1
  /\ totalRounds \in 1..MaxRounds
  /\ adaptiveMode = TRUE
  /\ isPlaying = FALSE
  /\ isPaused = FALSE
  /\ currentRound = 0
  /\ sequence = <<>>
  /\ currentStimulusIndex = -1
  /\ gamePhase = "waiting"
  /\ waitingForResponse = FALSE
  /\ responses = <<>>
  /\ score = ZeroScore
  /\ performanceHistory = <<>>
  /\ now = 0
  /\ snapshotsThisGame = 0

\* The store at rest, for the specifications that do not run it.
StoreIdle == InitGame(0) /\ totalRounds = 1

InitStore == InitGame(StoreClock) /\ CtlIdle /\ GenIdle /\ AsgIdle /\ CallIdle
    /\ StatsIdle
InitHistory == InitGame(MaxClock) /\ CtlIdle /\ GenIdle /\ AsgIdle /\ CallIdle
    /\ StatsIdle

NextStore ==
  \/ ClickStart
  \/ ClickReset
  \/ ChangeNLevel
  \/ ChangeRounds
  \/ TimerStimulus
  \/ TimerResponse
  \/ TimerFeedback
  \/ TimerWaiting
  \/ KeyPress
  \/ ClickResponse

\* The store under every handler of the UI, the clock capped at StoreClock.
SpecStore == InitStore /\ [][NextStore]_vars

\* ---- the timer-driven flow of games that are never paused, stopped or
\* reset: the start button, the sliders between games, the timers, the keys
\* and the response buttons.  A game takes at most totalRounds snapshots (one
\* submitResponse per scored stimulus), and a game is started only while the
\* clock has room for them.
FlowStart == now + totalRounds <= clockCap /\ ClickStart

InitFlow ==
  InitGame(FlowClock) /\ CtlIdle /\ GenIdle /\ AsgIdle /\ CallIdle
    /\ StatsIdle

NextFlow ==
  \/ FlowStart
  \/ ChangeNLevel
  \/ ChangeRounds
  \/ TimerStimulus
  \/ TimerResponse
  \/ TimerFeedback
  \/ TimerWaiting
  \/ KeyPress
  \/ ClickResponse

\* useGameFlow.ts 17-46: while playing and not paused the effect holds one
\* pending setTimeout for the current phase; it is cleared only when the
\* phase, isPlaying or isPaused changes, so a timer that stays pending fires.
FlowFairness == WF_vars(TimerStep)

SpecFlow == InitFlow /\ [][NextFlow]_vars /\ FlowFairness

\* ---- the store called directly (useGameStore.getState().operation()) ----
\* Every operation of the store from every state the operations lead to.
\* The response log, the missed counts and the clock are capped.
DirectLogFull ==
  \/ Len(responses) >= MaxDirectLog
  \/ score.totalMissed >= MaxDirectMissed

\* The array handed to setSequence: the empty one, shorter than any game's.
DirectSequences == {<<>>}

CallStartGame == StartGame
CallPauseGame == PauseGame
CallResumeGame == ResumeGame
CallStopGame == StopGame
CallEndGame == EndGame
CallResetGame == ResetGame
\* updateSettings({ nLevel: n }); the rounds are the ones Init draws.
CallUpdateSettings ==
  \E n \in 1..MaxNLevel : n # nLevel /\ UpdateSettings(n, totalRounds)
CallSetSequence == \E seq \in DirectSequences : SetSequence(seq)
CallPresentStimulus == PresentStimulus(0)
CallWaitForResponse == WaitForResponse
CallNextStimulus == NextStimulus
CallSubmitResponse ==
  /\ ~DirectLogFull
  /\ \E type \in ResponseTypes \cup {NoResponse} : SubmitResponse(type)
CallSubmitResponseIfValid ==
  /\ ~DirectLogFull
  /\ \E type \in ResponseTypes : SubmitResponseIfValid(type)

InitDirect ==
  InitGame(DirectClock) /\ CtlIdle /\ GenIdle /\ AsgIdle /\ CallIdle
    /\ StatsIdle

NextDirect ==
  \/ CallStartGame
  \/ CallPauseGame
  \/ CallResumeGame
  \/ CallStopGame
  \/ CallEndGame
  \/ CallResetGame
  \/ CallUpdateSettings
  \/ CallSetSequence
  \/ CallPresentStimulus
  \/ CallWaitForResponse
  \/ CallNextStimulus
  \/ CallSubmitResponse
  \/ CallSubmitResponseIfValid

SpecDirect == InitDirect /\ [][NextDirect]_vars

\* Games played one after the other under the configuration of Init, the
\* clock running up to MaxClock: the history fills up and overflows.
NextHistory ==
  \/ ClickStart
  \/ TimerStimulus
  \/ TimerResponse
  \/ TimerFeedback
  \/ TimerWaiting
  \/ KeyPress
  \/ ClickResponse

SpecHistory == InitHistory /\ [][NextHistory]_vars

\* The response log and the snapshot half of submitResponse, the
\* correctness of each response an input.
RecordResponse ==
  /\ Len(responses) < MaxLog
  /\ \E type \in ResponseTypes, correct \in BOOLEAN :
       LET newResponses ==
             Append(responses, ResponseEntry(type, currentRound, correct))
       IN /\ responses' = newResponses
          /\ SnapshotStep(newResponses)
  /\ UNCHANGED <<nonStoreVars, clockCap, nLevel, totalRounds, adaptiveMode, isPlaying, isPaused,
                 currentRound, sequence, currentStimulusIndex, gamePhase,
                 waitingForResponse, score>>

SpecLog == InitStore /\ [][RecordResponse]_vars

\* The controller applied to every history of up to MaxSnapshots snapshots.
InitCtl ==
  /\ StoreIdle
  /\ StatsIdle
  /\ GenIdle
  /\ AsgIdle
  /\ CallIdle
  /\ ctlHistory = <<>>
  /\ ctlLevel \in 1..MaxCtlLevel
  /\ ctlResult = analyzeAdaptiveTriggers(ctlHistory, ctlLevel)

SpecCtl == InitCtl /\ [][CtlSnapshot]_vars

\* createEngagementPattern called on its own, with the constraints of a
\* profile and the same target on both channels.
InitPattern ==
  /\ StoreIdle
  /\ StatsIdle
  /\ CtlIdle
  /\ AsgIdle
  /\ CallIdle
  /\ genStage = "position"
  /\ \E length \in 1..MaxSlots, matches \in 0..MaxMatches,
        d \in Difficulties, n \in {1, 2, 3} :
       /\ matches <= length
       /\ cepArgs = [length |-> length, positionMatches |-> matches,
                     audioMatches |-> matches,
                     maxConsecutive |-> Profiles[d].maxConsecutive,
                     minGap |-> Profiles[d].minGap, nLevel |-> n]
       /\ pattern = AllFalse(length)
       /\ lastPlaced = -Profiles[d].minGap - 1
       /\ slotsLeft = 0..(length - 1)
  /\ plan = [position |-> <<>>, audio |-> <<>>]
  /\ placed = 0
  /\ BreakIdle
  /\ genArgs = [kind |-> "engaging", length |-> 0, gridSize |-> 3, nLevel |-> 1,
                difficulty |-> "medium"]
  /\ genSequence = <<>>
  /\ drawWidth = [position |-> 1, audio |-> 1]

NextPattern ==
  \/ PlaceVisit
  \/ PlaceFill
  \/ ReturnPosition
  \/ ReturnAudio

SpecPattern == InitPattern /\ [][NextPattern]_vars

\* The same calls, run: a loop of placeMatches that can take another
\* iteration, or return, does so (the code is sequential).
SpecPatternRun == SpecPattern /\ WF_vars(NextPattern)

\* generateEngagingSequence from the call of createEngagementPattern to its
\* return, each draw of a stimulus resolved to the first value let through.
EngagingCalls ==
  {<<6, 1, "easy">>, <<9, 1, "easy">>, <<12, 3, "medium">>, <<7, 2, "hard">>}
InitEngaging ==
  /\ StoreIdle
  /\ StatsIdle
  /\ CtlIdle
  /\ AsgIdle
  /\ CallIdle
  /\ drawWidth = [position |-> 1, audio |-> 1]
  /\ \E call \in EngagingCalls :
       EngagingCalled(GenArgs("engaging", call[1], 3, call[2], call[3]), {1})

NextEngaging ==
  \/ PlaceVisit
  \/ PlaceFill
  \/ ReturnPosition
  \/ ReturnAudio
  \/ BreakingStart
  \/ BreakStep
  \/ BreakingEnd
  \/ BackfillPosition
  \/ BackfillPositionEnd
  \/ BackfillAudio
  \/ BreakingReturns
  \/ MaterializeEngaging

SpecEngaging == InitEngaging /\ [][NextEngaging]_vars

\* generateEngagingSequence(16, 3, 8, 'hard') from the call of
\* createEngagementPattern to its return, or to where it stays for ever: the
\* highest n-level of the slider, the draws of an audio value ranging over
\* two values.
InitLevel8 ==
  /\ StoreIdle
  /\ StatsIdle
  /\ CtlIdle
  /\ AsgIdle
  /\ CallIdle
  /\ drawWidth = [position |-> 1, audio |-> 2]
  /\ EngagingCalled(GenArgs("engaging", 2 * MaxSliderLevel, 3, MaxSliderLevel, "hard"), {1})

SpecLevel8 == InitLevel8 /\ [][NextEngaging]_vars

\* The loops of stimuli of both generators for every n-level of the slider
\* and every grid size, over sequences long enough to fill the used values
\* (2 nLevel of them) and to span two segments.  The plan of the channel
\* under study is drawn slot by slot and its draws range over two values;
\* the other channel plans no match and follows its first draw.  One
\* adaptive call more, with segments longer than 5 and no match planned.
GridSizes == {3, 4, 5}
SequenceLength(n) ==
  n + (IF n + 1 > MinEligible THEN n + 1 ELSE MinEligible)

InitSequence ==
  /\ StoreIdle
  /\ StatsIdle
  /\ CtlIdle
  /\ AsgIdle
  /\ CallIdle
  /\ PlaceIdle
  /\ BreakIdle
  /\ genStage = "materialize"
  /\ cepArgs = [length |-> 0, positionMatches |-> 0, audioMatches |-> 0,
                maxConsecutive |-> 1, minGap |-> 1, nLevel |-> 1]
  /\ \/ \E kind \in {"engaging", "adaptive"}, n \in 1..MaxSliderLevel,
           gridSize \in GridSizes, studied \in {"position", "audio"} :
          /\ studied = "audio" => gridSize = 3
          /\ genArgs = GenArgs(kind, SequenceLength(n), gridSize, n, "medium")
          /\ genSequence \in FirstStimuli(n, gridSize, {0, 1})
          /\ plan = [c \in {"position", "audio"} |->
                       IF c = studied THEN <<>> ELSE AllFalse(SequenceLength(n) - n)]
          /\ drawWidth = [c \in {"position", "audio"} |->
                            IF c = studied THEN 2 ELSE 1]
     \/ /\ genArgs = GenArgs("adaptive", LongLength, 3, 1, "medium")
        /\ genSequence \in FirstStimuli(1, 3, {1})
        /\ plan = [c \in {"position", "audio"} |-> AllFalse(LongLength - 1)]
        /\ drawWidth = [c \in {"position", "audio"} |-> 1]

NextSequence ==
  \/ MaterializeEngaging
  \/ MaterializeAdaptive

SpecSequence == InitSequence /\ [][NextSequence]_vars

\* AdaptiveSequenceGenerator: createAdaptiveGenerator(nLevel, 3, difficulty),
\* then getNextStimulus, peekNextStimulus and updateConfig in any order.
GeneratorCalls == {<<2, "medium">>, <<1, "hard">>}
InitGenerator ==
  /\ StoreIdle
  /\ StatsIdle
  /\ CtlIdle
  /\ GenIdle
  /\ CallIdle
  /\ \E call \in GeneratorCalls :
       LET n == call[1]
           config == AdaptiveConfig(n, 3, call[2])
       IN \E stimuli \in FirstStimuli(n, 3, {1}), indices \in PlanChoices(config) :
            generators = [id \in {1} |-> NewGenerator(config, stimuli, indices)]
  /\ lastCall = Called(1, "new", NoResult)
  /\ updatesLeft = MaxUpdates

NextGenerator ==
  \/ GetNextStimulus
  \/ PeekNextStimulus
  \/ UpdateConfig

SpecGenerator == InitGenerator /\ [][NextGenerator]_vars

\* Two instances built from one config object, then getNextStimulus,
\* updateConfig and reset on either of them in any order.
InitInstances ==
  /\ StoreIdle
  /\ StatsIdle
  /\ CtlIdle
  /\ GenIdle
  /\ CallIdle
  /\ \E config \in ResetConfigs :
       \E stimuli \in FirstStimuli(config.nLevel, config.gridSize, {1}),
          first \in PlanChoices(config), second \in PlanChoices(config) :
         generators = <<NewGenerator(config, stimuli, first),
                        NewGenerator(config, stimuli, second)>>
  /\ lastCall = Called(2, "new", NoResult)
  /\ updatesLeft = MaxUpdates

GetNextOfInstance == GetNextStimulusWithin(MaxInstanceGenerated)

NextInstances ==
  \/ GetNextOfInstance
  \/ UpdateConfig
  \/ Reset

SpecInstances == InitInstances /\ [][NextInstances]_vars

\* shouldPositionMatch and shouldAudioMatch on every sequence of up to
\* MaxChecked stimuli, at every index from -1 to one past MaxChecked.
CheckedSequences ==
  UNION {[0..(len - 1) -> [position : ChannelValues, audio : ChannelValues]] :
           len \in 0..MaxChecked}

InitMatchCheck ==
  /\ StoreIdle
  /\ StatsIdle
  /\ CtlIdle
  /\ GenIdle
  /\ AsgIdle
  /\ callArgs \in [fn : {"shouldPositionMatch", "shouldAudioMatch"},
                   sequence : CheckedSequences,
                   currentIndex : (-1)..(MaxChecked + 1),
                   nLevel : 1..MaxNLevel]
  /\ callResult = Pending

SpecMatchCheck == InitMatchCheck /\ [][CallShouldMatch]_vars

\* calculateAdaptiveAdjustments on the empty history and on every history
\* of up to MaxAdjustHistory snapshots, for the n-levels of AdjustLevels.
InitAdjust ==
  /\ StoreIdle
  /\ StatsIdle
  /\ CtlIdle
  /\ GenIdle
  /\ AsgIdle
  /\ \E n \in AdjustLevels :
       /\ callArgs = [fn |-> "calculateAdaptiveAdjustments",
                      performanceHistory |-> <<>>, nLevel |-> n]
       /\ callResult = Returned(calculateAdaptiveAdjustments(<<>>, n))

SpecAdjust == InitAdjust /\ [][CallAdjustments]_vars

\* createPerformanceSnapshot(responses, currentRound, timeWindow) on every
\* log of up to MaxSnapshotLog entries, in every round up to MaxSnapshotLog
\* and for every window up to MaxWindow.
InitSnapshot ==
  /\ StoreIdle
  /\ StatsIdle
  /\ CtlIdle
  /\ GenIdle
  /\ AsgIdle
  /\ callArgs \in [fn : {"createPerformanceSnapshot"},
                   responses : ResponseLogs,
                   currentRound : 0..MaxSnapshotLog,
                   timeWindow : 1..MaxWindow]
  /\ callResult = Pending

SpecSnapshot == InitSnapshot /\ [][CallSnapshot]_vars

\* calculateAccuracy(correct, incorrect, missed), of either export.
InitAccuracy ==
  /\ StoreIdle
  /\ StatsIdle
  /\ CtlIdle
  /\ GenIdle
  /\ AsgIdle
  /\ callArgs \in [fn : {"calculateAccuracy"},
                   variant : AccuracyVariants,
                   correct : 0..MaxCount,
                   incorrect : 0..MaxCount,
                   missed : 0..MaxCount]
  /\ callResult = Pending

SpecAccuracy == InitAccuracy /\ [][CallAccuracy]_vars

\* ======================================================= claims =========

Channels == {"position", "audio"}

\* Stimulus i repeats, on channel c, the stimulus nLevel back.
C1_Matches(c, i) ==
  i >= genArgs.nLevel /\ genSequence[i][c] = genSequence[i - genArgs.nLevel][c]

\* C1: in the sequence of generateEngagingSequence and of
\* generateAdaptiveSequence, every stimulus i >= nLevel repeats the position
\* of stimulus i - nLevel exactly when slot i - nLevel of the position plan is
\* true, and likewise for audio, whatever the draws and wherever the segments
\* of the adaptive generator fall.
C1_MatchesFollowPlan ==
  \A i \in DOMAIN genSequence : \A c \in Channels :
    i >= genArgs.nLevel => (C1_Matches(c, i) <=> plan[c][i - genArgs.nLevel])

\* A returned adaptive sequence in which a stimulus of the second segment
\* repeats one of the first segment as planned, another one was planned and
\* drawn not to, and the n-back value was let through by the used values.
C1_Witness ==
  /\ genStage = "done"
  /\ genArgs.kind = "adaptive"
  /\ \E c \in Channels, i, j \in DOMAIN genSequence :
       LET n == genArgs.nLevel
       IN /\ i - n >= SegmentSize
          /\ i - n >= n
          /\ i - n - n < SegmentSize
          /\ plan[c][i - n]
          /\ C1_Matches(c, i)
          /\ j >= n
          /\ ~plan[c][j - n]
          /\ UsedCount([k \in DOMAIN genSequence |-> genSequence[k][c]], j, n,
                       genSequence[j - n][c]) <= 1
          /\ ~C1_Matches(c, j)

\* C2: in every sequence generateEngagingSequence returns, no channel has
\* more than maxConsecutive matches in a row and no two matches of a channel
\* are closer than minGap, for the profile of the difficulty.
C2_ProfileConstraintsHold ==
  genStage = "done" =>
    \A c \in Channels :
      LET settings == Profiles[genArgs.difficulty]
      IN /\ \A i \in DOMAIN genSequence :
              ~\A k \in 0..settings.maxConsecutive :
                 (i + k) \in DOMAIN genSequence /\ C1_Matches(c, i + k)
         /\ \A i, j \in DOMAIN genSequence :
              (i < j /\ C1_Matches(c, i) /\ C1_Matches(c, j))
                => j - i >= settings.minGap

C3_Count(c) == Cardinality({i \in DOMAIN genSequence : C1_Matches(c, i)})

\* round((length - nLevel) x rate), the rate in hundredths
C3_Target ==
  ((genArgs.length - genArgs.nLevel) * Profiles[genArgs.difficulty].rate + 50) \div 100

\* C3: the sequence generateEngagingSequence returns for length > nLevel has,
\* on each channel, a number of matches within 1 of
\* round((length - nLevel) x match rate of the profile).
C3_MatchCountNearTarget ==
  (genStage = "done" /\ genArgs.length > genArgs.nLevel) =>
    \A c \in Channels :
      /\ C3_Count(c) <= C3_Target + 1
      /\ C3_Target <= C3_Count(c) + 1

\* A returned sequence with three position matches for a target of three, two
\* of them next to each other: placement leaves a gap after every match, so
\* the backfill made up the count.
C3_Witness ==
  /\ genStage = "done"
  /\ C3_Target = 3
  /\ C3_Count("position") = 3
  /\ \E i \in DOMAIN genSequence :
       (i + 1) \in DOMAIN genSequence
         /\ C1_Matches("position", i) /\ C1_Matches("position", i + 1)

\* C4: placeMatches under-delivers only when the constraints are infeasible:
\* when some arrangement of targetMatches true slots exists for the length of
\* the call that keeps every two matches more than minGap apart, keeps every
\* run within maxConsecutive and (where the call avoids overlap) stays off the
\* existing pattern, the pattern placeMatches returns has exactly
\* targetMatches true slots.
C4_Arrangement(slots) ==
  /\ \A i, j \in slots : i < j => j - i > cepArgs.minGap
  /\ \A i \in slots : ~\A k \in 0..cepArgs.maxConsecutive : (i - k) \in slots
  /\ AvoidOverlap => \A i \in slots : ~ExistingPattern[i]

C4_Feasible ==
  \E slots \in SUBSET (0..(Length - 1)) :
    Cardinality(slots) = TargetMatches /\ C4_Arrangement(slots)

C4_ExactWhenFeasible ==
  (PlaceReturns /\ C4_Feasible) => MatchCount(pattern) = TargetMatches

C6_AdmissibleValueExists ==
  genStage = "materialize" =>
    LET i == Len0(genSequence)
        n == genArgs.nLevel
    IN /\ FALSE \in SlotValues(plan.position, i - n)
            => Admissible(Positions, i, n, MaxPosition) # {}
       /\ FALSE \in SlotValues(plan.audio, i - n)
            => Admissible(Audios, i, n, MaxAudio) # {}

\* C7: the snapshot the store takes over its response log reports
\* accuracy = 100 x (entries of the window answered correctly) / (entries
\* of the window); rounds without a response are not in the log.
C7_SnapshotAccuracy ==
  (Len(responses) > 0 /\ Len(responses) % SnapshotEvery = 0
     /\ performanceHistory # <<>>)
  => LET s == performanceHistory[Len(performanceHistory)]
         w == SliceLast(responses, SnapshotWindow)
     IN s.accuracy * Len(w)
          = 100 * Cardinality({i \in 1..Len(w) : w[i].correct})

\* C8: analyzeAdaptiveTriggers looks only at the last 3 snapshots and returns
\* maintain (shouldAdjust = FALSE) for fewer than 3 snapshots; else increase
\* when the mean accuracy reaches max(85, 95 - 2n) and the mean missed rate is
\* below 0.1, urgency high iff each of the 3 reaches the threshold; else
\* decrease when the mean accuracy is at most max(50, 65 - 3n) or the mean
\* missed rate is above 0.4, urgency high iff the mean accuracy is at most the
\* threshold minus 10; else decrease/medium when the accuracy fell by more
\* than 15 from the first to the last of the 3; else maintain.  The means are
\* the exact ones: the mean missed rate of r is C8_Missed(r) / C8_Total(r) / 3.
C8_Missed(r) ==
  r[1].missedResponses * r[2].totalResponses * r[3].totalResponses
    + r[2].missedResponses * r[1].totalResponses * r[3].totalResponses
    + r[3].missedResponses * r[1].totalResponses * r[2].totalResponses
C8_Total(r) == r[1].totalResponses * r[2].totalResponses * r[3].totalResponses
C8_Accuracy(r) == r[1].accuracy + r[2].accuracy + r[3].accuracy

C8_Expected(history, n) ==
  LET len == Len(history)
      r == SubSeq(history, len - 2, len)
      excellent == IF 95 - 2 * n > 85 THEN 95 - 2 * n ELSE 85
      poor == IF 65 - 3 * n > 50 THEN 65 - 3 * n ELSE 50
  IN IF len < 3 THEN <<FALSE, "maintain", "low">>
     ELSE IF C8_Accuracy(r) >= 3 * excellent
             /\ 10 * C8_Missed(r) < 3 * C8_Total(r)
       THEN <<TRUE, "increase",
              IF \A i \in 1..3 : r[i].accuracy >= excellent
                THEN "high" ELSE "medium">>
     ELSE IF C8_Accuracy(r) <= 3 * poor
             \/ 10 * C8_Missed(r) > 12 * C8_Total(r)
       THEN <<TRUE, "decrease",
              IF C8_Accuracy(r) <= 3 * (poor - 10) THEN "high" ELSE "medium">>
     ELSE IF r[3].accuracy - r[1].accuracy < -15
       THEN <<TRUE, "decrease", "medium">>
     ELSE <<FALSE, "maintain", "low">>

C8_Example(a1, a2, a3, missed, total) ==
  <<[accuracy |-> a1, missedResponses |-> missed, totalResponses |-> total],
    [accuracy |-> a2, missedResponses |-> missed, totalResponses |-> total],
    [accuracy |-> a3, missedResponses |-> missed, totalResponses |-> total]>>

C8_TriggerDecisionTable ==
  LET e == C8_Expected(ctlHistory, ctlLevel)
      x == analyzeAdaptiveTriggers(C8_Example(95, 96, 97, 1, 20), 2)
      y == analyzeAdaptiveTriggers(C8_Example(40, 38, 35, 0, 10), 3)
  IN /\ ctlResult.shouldAdjust = e[1]
     /\ ctlResult.recommendedAction = e[2]
     /\ ctlResult.shouldAdjust => ctlResult.urgency = e[3]
     /\ x.shouldAdjust /\ x.recommendedAction = "increase" /\ x.urgency = "high"
     /\ y.recommendedAction = "decrease"

\* C9: the number of snapshots appended since startGame is
\* floor(responses.length / 5).
C9_SnapshotPerFiveResponses ==
  (isPlaying \/ gamePhase = "completed")
  => snapshotsThisGame = Len(responses) \div SnapshotEvery

\* C10: performanceHistory never holds more than 20 snapshots, and a
\* snapshot appended to a full history evicts the oldest one and keeps the
\* others in order.
C10_HistoryBounded ==
  /\ [](Len(performanceHistory) <= HistoryLimit)
  /\ [][performanceHistory' # performanceHistory
          => /\ Len(performanceHistory') >= 1
             /\ SubSeq(performanceHistory', 1, Len(performanceHistory') - 1)
                  = IF Len(performanceHistory) = HistoryLimit
                      THEN Tail(performanceHistory)
                      ELSE performanceHistory]_vars

\* A full history whose oldest snapshot has been evicted.
C10_Witness ==
  /\ Len(performanceHistory) = HistoryLimit
  /\ performanceHistory[1].timestamp = 2
  /\ performanceHistory[HistoryLimit].timestamp = HistoryLimit + 1

\* f is a prefix of h, both on 0..(length - 1).
IsPrefix(f, h) ==
  /\ Len0(f) <= Len0(h)
  /\ \A i \in DOMAIN f : h[i] = f[i]

\* C11: updateConfig leaves the stimuli already returned and the cursor as
\* they are, and over every step of getNextStimulus, peekNextStimulus and
\* updateConfig the sequence getGeneratedSequence reports is a prefix of
\* the one it reports afterwards.
C11_Step ==
  \A id \in DOMAIN generators :
    /\ IsPrefix(getGeneratedSequence(generators[id]),
                getGeneratedSequence(generators'[id]))
    /\ lastCall'.op = "updateConfig" =>
         /\ getGeneratedSequence(generators'[id]) = getGeneratedSequence(generators[id])
         /\ generators'[id].generatedCount = generators[id].generatedCount
C11_SequenceOnlyGrows == [][C11_Step]_vars

\* updateConfig has just changed the config of a generator that had
\* returned two stimuli or more.
C11_Witness ==
  /\ lastCall.op = "updateConfig"
  /\ \E id \in DOMAIN generators :
       LET g == generators[id]
           config == g.currentConfig
       IN /\ g.generatedCount >= config.nLevel + 2
          /\ Len0(getGeneratedSequence(g)) = g.generatedCount
          /\ config # AdaptiveConfig(config.nLevel, config.gridSize, config.difficulty)

\* C12: a call of peekNextStimulus leaves generatedCount, the generated
\* sequence, the current config and the planned match sets as they were;
\* a call of getNextStimulus appends exactly one stimulus, the one it
\* returns, and advances generatedCount by exactly 1.
C12_Step ==
  LET before == generators[lastCall'.on]
      after == generators'[lastCall'.on]
  IN /\ lastCall'.op = "peekNextStimulus" =>
          /\ after.generatedCount = before.generatedCount
          /\ getGeneratedSequence(after) = getGeneratedSequence(before)
          /\ after.currentConfig = before.currentConfig
          /\ after.nextSegmentMatches = before.nextSegmentMatches
          /\ generators' = generators
     /\ lastCall'.op = "getNextStimulus" =>
          /\ getGeneratedSequence(after)
               = Push(getGeneratedSequence(before), lastCall'.result)
          /\ after.generatedCount = before.generatedCount + 1
C12_PeekDoesNotAdvance == [][C12_Step]_vars

\* A peek made after stimuli were returned, within a planned segment.
C12_Witness ==
  /\ lastCall.op = "peekNextStimulus"
  /\ LET g == generators[lastCall.on]
     IN /\ g.generatedCount >= g.currentConfig.nLevel + 1
        /\ g.nextSegmentMatches.position # {}
        /\ lastCall.result.position \in 0..maxPosition(g)

\* C13: shouldPositionMatch and shouldAudioMatch return false, and raise no
\* error, at every index without a valid comparison: currentIndex < nLevel,
\* and currentIndex >= sequence.length.
C13_NoComparison ==
  \/ callArgs.currentIndex < callArgs.nLevel
  \/ callArgs.currentIndex >= Len0(callArgs.sequence)
C13_FalseWithoutComparison ==
  (callArgs.fn \in {"shouldPositionMatch", "shouldAudioMatch"}
   /\ callResult.done /\ C13_NoComparison)
    => (~callResult.threw /\ callResult.value = FALSE)

\* C14: for length > nLevel, generateEngagingSequence and
\* generateAdaptiveSequence return exactly length stimuli, each with a
\* position in 0..gridSize*gridSize-1 and an audio in 0..7; the adaptive
\* segments of size max(5, floor((length - nLevel) / 4)), the last one
\* possibly shorter, go through every eligible index exactly once.
C14_InRange(stimulus) ==
  /\ stimulus.position \in 0..(genArgs.gridSize * genArgs.gridSize - 1)
  /\ stimulus.audio \in 0..7
C14_SegmentsCover ==
  LET size == IF (genArgs.length - genArgs.nLevel) \div 4 > 5
                THEN (genArgs.length - genArgs.nLevel) \div 4 ELSE 5
      indices == SegmentIndices(0, genArgs.length - genArgs.nLevel, size)
  IN indices = [k \in 1..(genArgs.length - genArgs.nLevel) |-> k - 1]
C14_ReturnsLengthStimuli ==
  /\ \A i \in DOMAIN genSequence : C14_InRange(genSequence[i])
  /\ Len0(genSequence) <= genArgs.length
  /\ genStage = "done" => DOMAIN genSequence = 0..(genArgs.length - 1)
  /\ genArgs.kind = "adaptive" => C14_SegmentsCover

\* generateAdaptiveSequence has returned a sequence of several segments,
\* the last one shorter than the others.
C14_Witness ==
  /\ genStage = "done"
  /\ genArgs.kind = "adaptive"
  /\ genArgs.length > genArgs.nLevel
  /\ Eligible > SegmentSize
  /\ Eligible % SegmentSize # 0

\* C15: for every performance history, the empty one and those with
\* snapshots of totalResponses = 0 included, and every nLevel,
\* calculateAdaptiveAdjustments returns matchRateMultiplier in [0.5, 1.5],
\* complexityBonus in [-0.1, 0.2], pacingAdjustment in [-1, 2] and
\* confidenceLevel in [0, 1]; the empty history gives 1.0, 0, 0 and
\* confidence 0.
C15_AdjustmentsInRange ==
  (callArgs.fn = "calculateAdaptiveAdjustments" /\ callResult.done) =>
    LET r == callResult.value
    IN /\ ~callResult.threw
       /\ 2 * r.matchRateMultiplier >= MultiplierUnit
       /\ 2 * r.matchRateMultiplier <= 3 * MultiplierUnit
       /\ 10 * r.complexityBonus >= -BonusUnit
       /\ 5 * r.complexityBonus <= BonusUnit
       /\ r.pacingAdjustment \in (-1)..2
       /\ r.confidenceLevel >= 0
       /\ r.confidenceLevel <= ConfidenceUnit
       /\ callArgs.performanceHistory = <<>> =>
            /\ r.matchRateMultiplier = MultiplierUnit
            /\ r.complexityBonus = 0
            /\ r.pacingAdjustment = 0
            /\ r.confidenceLevel = 0

\* A history of five snapshots or more, one of them without a possible
\* response, whose adjustments the return statement had to clamp.
C15_Witness ==
  /\ callArgs.fn = "calculateAdaptiveAdjustments"
  /\ callResult.done
  /\ Len(callArgs.performanceHistory) >= 5
  /\ \E i \in 1..Len(callArgs.performanceHistory) :
       callArgs.performanceHistory[i].totalResponses = 0
  /\ RawAdjustments(callArgs.performanceHistory, callArgs.nLevel) # callResult.value

\* C16: createPerformanceSnapshot returns an accuracy within [0, 100] and
\* missedResponses <= totalResponses, for every response log, window size
\* and current round.
C16_SnapshotInRange ==
  (callArgs.fn = "createPerformanceSnapshot" /\ callResult.done) =>
    LET s == callResult.value
    IN /\ ~callResult.threw
       /\ s.accuracy.num >= 0
       /\ s.accuracy.num <= 100 * s.accuracy.den
       /\ s.missedResponses <= s.totalResponses

\* ---------------------------------------------------------------------------
\* C17: startGame, called from any state, sets isPlaying = true,
\* isPaused = false, gamePhase = 'stimulus', currentStimulusIndex = 0,
\* waitingForResponse = false, an empty response log and an all-zero score, and
\* installs a sequence of exactly totalRounds + nLevel stimuli.
C17_Step ==
  CallStartGame =>
    /\ isPlaying' = TRUE
    /\ isPaused' = FALSE
    /\ gamePhase' = "stimulus"
    /\ currentStimulusIndex' = 0
    /\ waitingForResponse' = FALSE
    /\ responses' = <<>>
    /\ score' = ZeroScore
    /\ Len(sequence') = totalRounds + nLevel

C17_StartGameInstallsFreshGame == [][C17_Step]_vars

\* A game just started after a snapshot was taken in a game before it: the
\* store was not in its initial state when startGame was called.
C17_Witness ==
  /\ isPlaying /\ ~isPaused /\ gamePhase = "stimulus"
  /\ currentStimulusIndex = 0 /\ currentRound = 0 /\ ~waitingForResponse
  /\ responses = <<>> /\ score = ZeroScore
  /\ Len(sequence) = totalRounds + nLevel
  /\ now > 0 /\ snapshotsThisGame = 0

\* ---------------------------------------------------------------------------
\* C18: after startGame, each submitResponse('position') or
\* submitResponse('audio') call appends exactly one response record of that
\* type to responses and increases totalCorrect + totalIncorrect by exactly 1
\* (so one call right after startGame leaves responses with length 1).
C18_Step ==
  \A type \in ResponseTypes :
    (isPlaying /\ SubmitResponse(type)) =>
      /\ Len(responses') = Len(responses) + 1
      /\ SubSeq(responses', 1, Len(responses)) = responses
      /\ responses'[Len(responses')].type = type
      /\ score'.totalCorrect + score'.totalIncorrect
           = score.totalCorrect + score.totalIncorrect + 1

C18_TypedResponseIsRecorded == [][C18_Step]_vars

\* ---------------------------------------------------------------------------
\* C20: between one startGame and the next startGame, resetGame or
\* setSequence, no operation of the game store (waitForResponse,
\* submitResponse, submitResponseIfValid, nextStimulus, pauseGame, resumeGame,
\* stopGame, endGame, the snapshot and the trigger analysis inside
\* submitResponse included) changes the sequence: a step that changes it is a
\* step of startGame, resetGame or setSequence.
C20_Step ==
  sequence' # sequence =>
    CallStartGame \/ CallResetGame \/ CallSetSequence

C20_SequenceFixedDuringGame == [][C20_Step]_vars

\* A game that was started, answered, advanced and ended, its sequence still
\* the one startGame installed.
C20_Witness ==
  /\ ~isPlaying /\ gamePhase = "completed"
  /\ currentStimulusIndex > 0
  /\ Len(responses) > 0
  /\ now > 0
  /\ Len(sequence) = totalRounds + nLevel

\* ---------------------------------------------------------------------------
\* C19: once startGame has been called and the game is never paused, stopped
\* or reset, the timer-driven flow (stimulus, then waiting or response, then
\* feedback, then the next stimulus) eventually reaches gamePhase = 'completed'
\* with isPlaying = false, after presenting each of the totalRounds + nLevel
\* stimuli exactly once in increasing index order, whatever responses the
\* player gives or omits.
\* A presentation is a step into the stimulus phase or to another index.
C19_Presents ==
  /\ gamePhase' = "stimulus"
  /\ gamePhase # "stimulus" \/ currentStimulusIndex' # currentStimulusIndex

C19_Step ==
  /\ C19_Presents =>
       currentStimulusIndex' =
         IF isPlaying THEN currentStimulusIndex + 1 ELSE 0
  /\ currentStimulusIndex' # currentStimulusIndex => C19_Presents
  /\ (isPlaying /\ ~isPlaying') =>
       /\ gamePhase' = "completed"
       /\ currentStimulusIndex = Len(sequence) - 1
       /\ Len(sequence) = totalRounds + nLevel

C19_Completed == gamePhase = "completed" /\ ~isPlaying

C19_GameRunsToCompletion ==
  /\ isPlaying ~> C19_Completed
  /\ [][C19_Step]_vars

\* A game of two rounds run to its end by the timers, one response given and
\* one match left unanswered.
C19_Witness ==
  /\ C19_Completed
  /\ Len(sequence) = totalRounds + nLevel
  /\ currentStimulusIndex = Len(sequence) - 1
  /\ Len(responses) > 0
  /\ score.totalMissed > 0

\* ---------------------------------------------------------------------------
\* C21: two AdaptiveSequenceGenerator instances, even when built from the same
\* config object, share no mutable state: a call of getNextStimulus,
\* updateConfig or reset on one instance leaves the cursor, the config, the
\* planned match sets and the generated sequence of the other as they were.
C21_Step ==
  \A other \in DOMAIN generators :
    other # lastCall'.on =>
      /\ generators'[other].generatedCount = generators[other].generatedCount
      /\ generators'[other].currentConfig = generators[other].currentConfig
      /\ generators'[other].nextSegmentMatches
           = generators[other].nextSegmentMatches
      /\ getGeneratedSequence(generators'[other])
           = getGeneratedSequence(generators[other])

C22_AccuracyCountsMissed ==
  (callArgs.fn = "calculateAccuracy" /\ callResult.done) =>
    LET all == callArgs.correct + callArgs.incorrect + callArgs.missed
        r == callResult.value
    IN /\ ~callResult.threw
       /\ ~r.nan
       /\ IF all = 0 THEN r.value.num = 0
          ELSE r.value.num * all = 100 * callArgs.correct * r.value.den

\* ---------------------------------------------------------------------------
\* C23: placeMatches never throws and always terminates, returns an array of
\* exactly `length` booleans with at most targetCount true slots, and returns
\* an all-false array when targetCount <= 0.
C23_WithinTarget(p, target) ==
  /\ DOMAIN p = 0..(Length - 1)
  /\ \A i \in DOMAIN p : p[i] \in BOOLEAN
  /\ MatchCount(p) <= Max(target, 0)

\* The array of the call in progress, and the arrays the calls returned.
C23_Arrays ==
  /\ Placing => C23_WithinTarget(pattern, TargetMatches) /\ MatchCount(pattern) = placed
  /\ genStage \in {"audio", "pattern"} =>
       C23_WithinTarget(plan.position, cepArgs.positionMatches)
  /\ genStage = "pattern" =>
       C23_WithinTarget(plan.audio, cepArgs.audioMatches)

C23_PlaceMatchesReturnsPattern ==
  /\ []C23_Arrays
  /\ <>(genStage = "pattern")

\* Both calls have returned: the first with its three matches, the second,
\* kept off the first one's slots, with fewer than asked.
C23_Witness ==
  /\ genStage = "pattern"
  /\ cepArgs.positionMatches = 3
  /\ MatchCount(plan.position) = 3
  /\ MatchCount(plan.audio) < cepArgs.audioMatches


\* ---------------------------------------------------------------------------
\* generateAdaptiveSequence called with an empty performance history, segment
\* by segment (2001-2071): each segment gets its own engagement pattern and
\* its own pattern breaking, then its stimuli are pushed.

\* The largest number of rounds of a game, in fives (GameControls.tsx
\* 219-223: the rounds slider goes from 10 to 50 in steps of 5).
MaxFives == 4
AdaptiveRounds == {5 * k : k \in 2..MaxFives}

\* segmentPositionMatches, segmentAudioMatches (2013-2014) and the call of
\* createEngagementPattern (2017-2024) of the segment starting at
\* segmentStart; with an empty history calculateAdaptiveAdjustments returns
\* multiplier 1.0 and pacing 0 (1663-1670), which applyAdaptiveSettings
\* (1749-1760) turns into the base rates and gaps.
SegmentCall(args, segmentStart) ==
  LET eligible == args.length - args.nLevel
      segmentSize == IF eligible \div 4 > 5 THEN eligible \div 4 ELSE 5
      segmentLength == SegmentLength(segmentStart, eligible, segmentSize)
      segmentSettings == Profiles[args.difficulty]
  IN [length |-> segmentLength,
      positionMatches |-> TargetFor(segmentLength, args.difficulty),
      audioMatches |-> TargetFor(segmentLength, args.difficulty),
      maxConsecutive |-> segmentSettings.maxConsecutive,
      minGap |-> segmentSettings.minGap, nLevel |-> args.nLevel]

\* generateAdaptiveSequence, one iteration of 2038-2071 on the pattern of
\* the segment in hand; after the segment's last stimulus the loop 2004
\* goes on to the next segment.
SegmentStimulus ==
  /\ genStage = "materialize"
  /\ genArgs.kind = "adaptive"
  /\ LET done == Len0(genSequence) - genArgs.nLevel
         segmentStart == (done \div SegmentSize) * SegmentSize
         i == done - segmentStart
         absoluteIndex == genArgs.nLevel + segmentStart + i
         segmentLength == SegmentLength(segmentStart, Eligible, SegmentSize)
         next == SegmentCall(genArgs, segmentStart + SegmentSize)
     IN /\ \E position \in StimulusValues(Positions, absoluteIndex, genArgs.nLevel,
                                          MaxPosition, plan.position[i],
                                          drawWidth.position),
              audio \in StimulusValues(Audios, absoluteIndex, genArgs.nLevel,
                                       MaxAudio, plan.audio[i], drawWidth.audio) :
             genSequence' = Push(genSequence, [position |-> position, audio |-> audio])
        /\ IF i + 1 < segmentLength
             THEN UNCHANGED <<genStage, cepArgs, plan, placeVars>>
           ELSE IF segmentStart + SegmentSize < Eligible
             THEN /\ genStage' = "position"
                  /\ cepArgs' = next
                  /\ plan' = [position |-> <<>>, audio |-> <<>>]
                  /\ pattern' = AllFalse(next.length)
                  /\ placed' = 0
                  /\ lastPlaced' = -next.minGap - 1
                  /\ slotsLeft' = 0..(next.length - 1)
           ELSE /\ genStage' = "done"
                /\ UNCHANGED <<cepArgs, plan, placeVars>>
  /\ UNCHANGED <<genArgs, drawWidth, breakVars, nonGenVars>>

\* placeMatches in the segments after the first visiting the shuffled slots
\* in ascending order, one of the orders the shuffle 2236 returns, with
\* every draw of 2251 below the threshold; in the first segment any order
\* and any draw.
VisitInOrder ==
  /\ PlaceVisit
  /\ Len0(genSequence) > genArgs.nLevel =>
       /\ slotsLeft' = slotsLeft \ {SetMin(slotsLeft)}
       /\ ValidSlot(SetMin(slotsLeft)) => placed' = placed + 1

InitAdaptive ==
  /\ StoreIdle
  /\ StatsIdle
  /\ CtlIdle
  /\ AsgIdle
  /\ CallIdle
  /\ BreakIdle
  /\ drawWidth = [position |-> 1, audio |-> 1]
  /\ \E rounds \in AdaptiveRounds, difficulty \in Difficulties :
       LET args == GenArgs("adaptive", rounds + 1, 3, 1, difficulty)
           first == SegmentCall(args, 0)
       IN /\ genArgs = args
          /\ genSequence \in FirstStimuli(1, 3, {1})
          /\ cepArgs = first
          /\ genStage = "position"
          /\ plan = [position |-> <<>>, audio |-> <<>>]
          /\ pattern = AllFalse(first.length)
          /\ placed = 0
          /\ lastPlaced = -first.minGap - 1
          /\ slotsLeft = 0..(first.length - 1)

NextAdaptive ==
  \/ VisitInOrder
  \/ PlaceFill
  \/ ReturnPosition
  \/ ReturnAudio
  \/ BreakingStart
  \/ BreakStep
  \/ BreakingEnd
  \/ BackfillPosition
  \/ BackfillPositionEnd
  \/ BackfillAudio
  \/ BreakingReturns
  \/ SegmentStimulus

SpecAdaptive == InitAdaptive /\ [][NextAdaptive]_vars

\* C24: with an empty history, the matches on each channel of the whole
\* sequence built by generateAdaptiveSequence are within 1 of
\* round(eligible x the profile's match rate), the segments' rounding
\* notwithstanding.
C24_WholeSequenceNearTarget ==
  genStage = "done" =>
    \A c \in Channels :
      /\ C3_Count(c) >= TargetFor(Eligible, genArgs.difficulty) - 1
      /\ C3_Count(c) <= TargetFor(Eligible, genArgs.difficulty) + 1


\* ---------------------------------------------------------------------------
\* The difficulty settings of a segment of generateAdaptiveSequence
\* (1977-2011).  Rates are kept exact, as quotients in lowest terms, and an
\* overlapBonus in BonusUnit-ths, like the adjustments they are combined
\* with.
RECURSIVE Gcd(_, _)
Gcd(a, b) == IF b = 0 THEN a ELSE Gcd(b, a % b)

\* a / b times c / d, in lowest terms.
RatioMul(x, y) ==
  LET g1 == Gcd(x.num, y.den)
      g2 == Gcd(y.num, x.den)
  IN IF x.num = 0 \/ y.num = 0 THEN Ratio(0, 1)
     ELSE Ratio((x.num \div g1) * (y.num \div g2), (x.den \div g2) * (y.den \div g1))
RatioLess(x, y) == x.num * y.den < y.num * x.den
Lowest(x) == Ratio(x.num \div Gcd(x.num, x.den), x.den \div Gcd(x.num, x.den))

\* baseDifficultySettings (1977-1982)
baseDifficultySettings ==
  [d \in Difficulties |->
     [position |-> Lowest(Ratio(Profiles[d].rate, 100)),
      audio |-> Lowest(Ratio(Profiles[d].rate, 100)),
      maxConsecutive |-> Profiles[d].maxConsecutive,
      minGap |-> Profiles[d].minGap,
      overlapBonus |-> (CASE d = "easy" -> 5 [] d = "medium" -> 10 [] OTHER -> 15)
                         * (BonusUnit \div 100)]]

\* Math.max(0.15, Math.min(0.45, rate * matchRateMultiplier)) (1754-1755)
ClampedRate(rate, multiplier) ==
  LET scaled == RatioMul(rate, Lowest(Ratio(multiplier, MultiplierUnit)))
  IN IF RatioLess(scaled, Ratio(3, 20)) THEN Ratio(3, 20)
     ELSE IF RatioLess(Ratio(9, 20), scaled) THEN Ratio(9, 20)
     ELSE scaled

\* applyAdaptiveSettings (1749-1760)
applyAdaptiveSettings(baseSettings, adjustments) ==
  [position |-> ClampedRate(baseSettings.position, adjustments.matchRateMultiplier),
   audio |-> ClampedRate(baseSettings.audio, adjustments.matchRateMultiplier),
   maxConsecutive |-> baseSettings.maxConsecutive,
   minGap |-> Max(1, baseSettings.minGap + adjustments.pacingAdjustment),
   overlapBonus |-> Max(-(BonusUnit \div 20),
                        Min(BonusUnit \div 4,
                            baseSettings.overlapBonus + adjustments.complexityBonus))]

\* recentPerformance (2008)
RecentPerformance(history) == SliceLast(history, 3)

\* segmentSettings (1985-1986, 2008-2011): the settings of the call adjusted
\* for the segment.  adjustmentsOf holds the result of
\* calculateAdaptiveAdjustments for the two histories it is called with:
\* adaptiveAdjustments for the whole one, segmentAdjustments for the recent
\* one.
segmentSettings(difficulty, history, n) ==
  CHOOSE segment \in
    {applyAdaptiveSettings(
       applyAdaptiveSettings(baseDifficultySettings[difficulty],
                             adjustmentsOf[history]),
       IF Len(RecentPerformance(history)) > 0
         THEN adjustmentsOf[RecentPerformance(history)]
         ELSE adjustmentsOf[history]) :
       adjustmentsOf \in
         {[h \in {history, RecentPerformance(history)} |->
             calculateAdaptiveAdjustments(h, n)]}} : TRUE

\* The longest history handed to generateAdaptiveSequence.
MaxSegmentHistory == 4

\* One snapshot more in the history, and the settings of a segment of the
\* sequence generated from it.
CallSegmentSettings ==
  /\ callArgs.fn = "generateAdaptiveSequence"
  /\ Len(callArgs.performanceHistory) < MaxSegmentHistory
  /\ \E s \in AdjustSnapshots :
       /\ callArgs' = [callArgs EXCEPT !.performanceHistory = Append(@, s)]
       /\ callResult' = Returned(segmentSettings(callArgs.difficulty,
                                                 callArgs'.performanceHistory,
                                                 callArgs.nLevel))
  /\ UNCHANGED nonCallVars

InitSegmentSettings ==
  /\ StoreIdle
  /\ StatsIdle
  /\ CtlIdle
  /\ GenIdle
  /\ AsgIdle
  /\ \E n \in AdjustLevels, difficulty \in Difficulties :
       /\ callArgs = [fn |-> "generateAdaptiveSequence", difficulty |-> difficulty,
                      performanceHistory |-> <<>>, nLevel |-> n]
       /\ callResult = Returned(segmentSettings(difficulty, <<>>, n))

SpecSegmentSettings == InitSegmentSettings /\ [][CallSegmentSettings]_vars

\* C25: the profile of a segment is the base profile adjusted exactly once
\* by the adjustment computed from the 3 most recent snapshots (rates scaled
\* by its multiplier, minGap raised by its pacing delta), and the base
\* profile itself when the history is empty.
C25_AdjustedOnce ==
  callArgs.fn = "generateAdaptiveSequence" =>
    LET base == baseDifficultySettings[callArgs.difficulty]
        recent == SliceLast(callArgs.performanceHistory, 3)
        once == applyAdaptiveSettings(
                  base, calculateAdaptiveAdjustments(recent, callArgs.nLevel))
    IN /\ callResult.value.position = once.position
       /\ callResult.value.audio = once.audio
       /\ callResult.value.minGap = once.minGap
       /\ callResult.value.maxConsecutive = once.maxConsecutive


\* C26: on each channel the stimuli a generator has emitted hold no run of
\* matches longer than config.maxConsecutive and no two matches closer than
\* config.minGap, across calls, segment boundaries and replans.
C26_Match(g, c, i) ==
  /\ i >= g.currentConfig.nLevel
  /\ i < Len0(g.baseSequence)
  /\ g.baseSequence[i][c] = g.baseSequence[i - g.currentConfig.nLevel][c]

C26_EmittedRespectConfig ==
  \A id \in DOMAIN generators : \A c \in Channels :
    LET g == generators[id]
        emitted == DOMAIN g.baseSequence
    IN /\ \A i \in emitted :
            \E k \in 0..g.currentConfig.maxConsecutive : ~C26_Match(g, c, i + k)
       /\ \A i \in emitted : \A j \in emitted :
            (i < j /\ C26_Match(g, c, i) /\ C26_Match(g, c, j))
              => j - i >= g.currentConfig.minGap


\* C27: a stimulus emitted by getNextStimulus at an index i >= nLevel has
\* the position of the stimulus at i - nLevel exactly when i is in the
\* planned position-match set in force at the emission, and likewise the
\* audio; the index is covered by the plan in force (from its startIndex,
\* segmentSize indices), also after updateConfig has replanned.
C27_Step ==
  \A id \in DOMAIN generators :
    LET g == generators[id]
        i == g.generatedCount
        n == g.currentConfig.nLevel
        emitted == generators'[id].baseSequence
    IN (/\ lastCall'.on = id
        /\ lastCall'.op = "getNextStimulus"
        /\ generators'[id].generatedCount = i + 1
        /\ i >= n)
       => /\ \A c \in Channels :
               emitted[i][c] = emitted[i - n][c] <=> i \in g.nextSegmentMatches[c]
          /\ lastCall'.result = emitted[i]
          /\ g.startIndex <= i
          /\ i < g.startIndex + g.currentConfig.segmentSize

C27_EmittedFollowPlan == [][C27_Step]_vars

\* After updateConfig has replanned and a segment boundary has been passed,
\* the stimulus just returned is a planned position match and an audio
\* non-match.
C27_Witness ==
  \E id \in DOMAIN generators :
    LET g == generators[id]
        i == g.generatedCount - 1
        n == g.currentConfig.nLevel
    IN /\ lastCall = Called(id, "getNextStimulus", g.baseSequence[i])
       /\ updatesLeft < MaxUpdates
       /\ i >= n + g.currentConfig.segmentSize
       /\ g.baseSequence[i].position = g.baseSequence[i - n].position
       /\ g.baseSequence[i].audio # g.baseSequence[i - n].audio


\* ---------------------------------------------------------------------------
\* The game under its timers and the player's responses, with startGame,
\* pauseGame and resumeGame called on the store at any moment
\* (useGame.ts 40-43 hands them out).  The response log and the missed
\* counts are capped.
MaxPauseLog == 3
MaxPauseMissed == 1
PauseLogFull ==
  \/ Len(responses) >= MaxPauseLog
  \/ score.totalMissed >= MaxPauseMissed

PausedTimerResponse == ~PauseLogFull /\ TimerResponse
PausedKeyPress == ~PauseLogFull /\ KeyPress
PausedClickResponse == ~PauseLogFull /\ ClickResponse

InitPause == InitGame(0) /\ CtlIdle /\ GenIdle /\ AsgIdle /\ CallIdle
    /\ StatsIdle

NextPause ==
  \/ StartGame
  \/ PauseGame
  \/ ResumeGame
  \/ TimerStimulus
  \/ PausedTimerResponse
  \/ TimerFeedback
  \/ TimerWaiting
  \/ PausedKeyPress
  \/ PausedClickResponse

SpecPause == InitPause /\ [][NextPause]_vars

\* C28: in every reachable state of the store the response log is no longer
\* than the sequence, whatever the interleaving of startGame, the timers,
\* the player's responses, pauseGame and resumeGame.
C28_ResponsesWithinSequence == Len(responses) <= Len(sequence)


\* ---------------------------------------------------------------------------
\* The store under startGame, waitForResponse, submitResponse, nextStimulus,
\* pauseGame, resumeGame and stopGame called in any order.
NextListed ==
  \/ CallStartGame
  \/ CallWaitForResponse
  \/ CallSubmitResponse
  \/ CallNextStimulus
  \/ CallPauseGame
  \/ CallResumeGame
  \/ CallStopGame

SpecListed == InitDirect /\ [][NextListed]_vars

\* C29: whenever isPlaying is true the index is inside the sequence,
\* 0 <= currentStimulusIndex < sequence.length, after any sequence of
\* startGame, waitForResponse, submitResponse, nextStimulus, pauseGame,
\* resumeGame and stopGame; nextStimulus on the last index ends the game
\* instead of advancing.
C29_InRange ==
  isPlaying => 0 <= currentStimulusIndex /\ currentStimulusIndex < Len(sequence)

C29_Step ==
  (isPlaying /\ currentStimulusIndex = Len(sequence) - 1 /\ CallNextStimulus)
    => /\ ~isPlaying'
       /\ gamePhase' = "completed"
       /\ currentStimulusIndex' = currentStimulusIndex

C29_IndexInsideSequence == []C29_InRange /\ [][C29_Step]_vars

\* A game resumed after a pause stands at its last stimulus with a response
\* recorded.
C29_Witness ==
  /\ isPlaying
  /\ ~isPaused
  /\ gamePhase = "stimulus"
  /\ currentStimulusIndex = Len(sequence) - 1
  /\ Len(responses) > 0


\* C30: waitingForResponse is true only while gamePhase is 'response': every
\* operation that leaves the response phase (submitResponse, nextStimulus,
\* pauseGame, stopGame, endGame) leaves waitingForResponse false.
C30_WaitingOnlyInResponsePhase ==
  waitingForResponse => gamePhase = "response"


\* C31: while isPaused is true the score, the response log and
\* currentStimulusIndex do not change: a key press or a click on a response
\* button that arrives after pauseGame is not scored, also when the game was
\* paused during the response window.
C31_Step ==
  (isPaused /\ isPaused')
    => /\ score' = score
       /\ responses' = responses
       /\ currentStimulusIndex' = currentStimulusIndex

C31_PausedGameIsFrozen == [][C31_Step]_vars


\* C32: when a game that was never paused completes, every match
\* opportunity has been scored exactly once: positionCorrect +
\* missedPositional is the number of stimuli whose position is the one
\* nLevel back, and audioCorrect + missedAudio the number of audio matches.
C32_Opportunities(c) ==
  Cardinality({i \in 0..(Len(sequence) - 1) :
                 IF c = "position" THEN PositionMatches(sequence, i, nLevel)
                 ELSE AudioMatches(sequence, i, nLevel)})

C32_Step ==
  (isPlaying /\ ~isPlaying')
    => /\ score'.positionCorrect + score'.missedPositional
            = C32_Opportunities("position")
       /\ score'.audioCorrect + score'.missedAudio = C32_Opportunities("audio")

C32_EveryOpportunityScoredOnce == [][C32_Step]_vars


\* C33: analyzeAdaptiveTriggers never recommends "increase" when the
\* accuracy of the most recent snapshot is more than 15 points below the
\* accuracy of the snapshot two before it.
C33_Declining(history) ==
  /\ Len(history) >= RecentCount
  /\ history[Len(history)].accuracy - history[Len(history) - 2].accuracy < -15

C33_NoIncreaseWhileDeclining ==
  C33_Declining(ctlHistory) => ctlResult.recommendedAction # "increase"


\* C34: snapshots of an empty response window are neutral for the
\* controller: when the last 3 snapshots of the history are zero snapshots,
\* analyzeAdaptiveTriggers returns maintain with shouldAdjust false.
C34_LastAreZero(history) ==
  /\ Len(history) >= RecentCount
  /\ \A i \in (Len(history) - RecentCount + 1)..Len(history) :
       history[i] = ZeroSnapshot

C34_ZeroSnapshotsAreNeutral ==
  C34_LastAreZero(ctlHistory)
    => /\ ctlResult.recommendedAction = "maintain"
       /\ ~ctlResult.shouldAdjust


\* C35: the stimulus peekNextStimulus returns has the position and audio of
\* the stimulus the next getNextStimulus call on the same generator returns
\* when no other call comes in between; in particular a peeked stimulus at
\* a planned non-match slot at or after nLevel never has its n-back value.
C35_Step ==
  (/\ lastCall.op = "peekNextStimulus"
   /\ lastCall'.op = "getNextStimulus"
   /\ lastCall'.on = lastCall.on)
    => /\ lastCall'.result.position = lastCall.result.position
       /\ lastCall'.result.audio = lastCall.result.audio

C35_PeekedNonMatch ==
  lastCall.op = "peekNextStimulus" =>
    LET g == generators[lastCall.on]
        i == g.generatedCount
    IN \A c \in Channels :
         (i >= g.currentConfig.nLevel /\ i \notin g.nextSegmentMatches[c])
           => lastCall.result[c] # NBack(g, c)

C35_PeekAgreesWithNext == []C35_PeekedNonMatch /\ [][C35_Step]_vars


\* C36: in every reachable state of the game store totalCorrect =
\* positionCorrect + audioCorrect, totalIncorrect = positionIncorrect +
\* audioIncorrect, totalMissed = missedPositional + missedAudio, and the
\* response log has totalCorrect + totalIncorrect entries.
C36_ScoreTotalsConsistent ==
  /\ score.totalCorrect = score.positionCorrect + score.audioCorrect
  /\ score.totalIncorrect = score.positionIncorrect + score.audioIncorrect
  /\ score.totalMissed = score.missedPositional + score.missedAudio
  /\ Len(responses) = score.totalCorrect + score.totalIncorrect

\* A game in which one stimulus was answered and a match of another was
\* missed.
C36_Witness ==
  /\ Len(responses) >= 1
  /\ score.totalCorrect + score.totalIncorrect >= 1
  /\ score.totalMissed >= 1


\* updateConfig called again and again on a generator of
\* createAdaptiveGenerator, for each difficulty.
MaxConfigUpdates == 5
ConfigCalls == {<<1, "easy">>, <<2, "medium">>, <<1, "hard">>}

InitConfig ==
  /\ StoreIdle
  /\ StatsIdle
  /\ CtlIdle
  /\ GenIdle
  /\ CallIdle
  /\ \E call \in ConfigCalls :
       LET n == call[1]
           config == AdaptiveConfig(n, 3, call[2])
       IN \E stimuli \in FirstStimuli(n, 3, {1}), indices \in PlanChoices(config) :
            generators = [id \in {1} |-> NewGenerator(config, stimuli, indices)]
  /\ lastCall = Called(1, "new", NoResult)
  /\ updatesLeft = MaxConfigUpdates

SpecConfig == InitConfig /\ [][UpdateConfig]_vars

\* C37: updateConfig(snapshot) multiplies both target match rates by 1.2
\* and adds 0.05 to overlapBonus when accuracy > 85 and the missed rate is
\* below 10%, multiplies them by 0.8 and subtracts 0.05 when accuracy < 60
\* or the missed rate is above 30%, and otherwise leaves them unchanged, the
\* results limited to [0.15, 0.45] and [0, 0.2]; after any sequence of
\* updateConfig calls both rates are within [0.15, 0.45] and overlapBonus
\* within [0, 0.2].
C37_Within(x, low, high) == ~DoubleLess(x, low) /\ ~DoubleLess(high, x)

C37_Excellent(s) ==
  s.accuracy > 85 /\ 10 * s.missedResponses < s.totalResponses

C37_Poor(s) ==
  s.accuracy < 60 \/ 10 * s.missedResponses > 3 * s.totalResponses

C37_Rate(rate, s) ==
  LET product ==
        IF C37_Excellent(s) \/ (s.totalResponses = 0 /\ s.accuracy > 85)
          THEN DoubleMul(rate, DoubleOfRatio(12, 10))
        ELSE IF C37_Poor(s) THEN DoubleMul(rate, DoubleOfRatio(8, 10))
        ELSE rate
  IN IF DoubleLess(product, DoubleOfRatio(15, 100)) THEN DoubleOfRatio(15, 100)
     ELSE IF DoubleLess(DoubleOfRatio(45, 100), product) THEN DoubleOfRatio(45, 100)
     ELSE product

C37_Bonus(bonus, s) ==
  LET step == DoubleOfRatio(5, 100)
      moved ==
        IF C37_Excellent(s) \/ (s.totalResponses = 0 /\ s.accuracy > 85)
          THEN DoubleAdd(bonus, step)
        ELSE IF C37_Poor(s)
          THEN IF DoubleLess(bonus, step) THEN DoubleZero
               ELSE DoubleSub(bonus, step)
        ELSE bonus
  IN IF DoubleLess(DoubleOfRatio(2, 10), moved) THEN DoubleOfRatio(2, 10)
     ELSE moved

C37_UpdateConfigAdjustsWithinLimits ==
  \A id \in DOMAIN generators :
    LET config == generators[id].currentConfig
    IN /\ C37_Within(config.targetPositionMatchRate,
                     DoubleOfRatio(15, 100), DoubleOfRatio(45, 100))
       /\ C37_Within(config.targetAudioMatchRate,
                     DoubleOfRatio(15, 100), DoubleOfRatio(45, 100))
       /\ C37_Within(config.overlapBonus, DoubleZero, DoubleOfRatio(2, 10))
       /\ \A s \in ConfigSnapshots :
            LET new == NewConfig(config, s)
            IN /\ new.targetPositionMatchRate
                    = C37_Rate(config.targetPositionMatchRate, s)
               /\ new.targetAudioMatchRate
                    = C37_Rate(config.targetAudioMatchRate, s)
               /\ new.overlapBonus = C37_Bonus(config.overlapBonus, s)

\* updateConfig has brought a generator to the upper limits, where a further
\* excellent snapshot leaves the rates and the bonus as they are.
C37_Witness ==
  /\ lastCall.op = "updateConfig"
  /\ generators[lastCall.on].currentConfig.targetPositionMatchRate
       = DoubleOfRatio(45, 100)
  /\ generators[lastCall.on].currentConfig.overlapBonus = DoubleOfRatio(2, 10)
  /\ updatesLeft > 0


\* C38: with overlap avoidance on (the audio call, nLevel < 3) placeMatches
\* never sets an audio slot where the position pattern is true, so
\* createEngagementPattern returns disjoint position and audio plans for
\* nLevel 1 and 2; for nLevel >= 3 overlap avoidance is off, and the position
\* plan is always placed without regard to the audio plan.
C38_Disjoint(p, q) == \A i \in DOMAIN p : ~(p[i] /\ q[i])

C38_Regardless ==
  /\ ~AvoidOverlap
  /\ \A slot \in DOMAIN pattern :
       ValidSlot(slot)
         <=> isValidPosition(pattern, slot, lastPlaced, cepArgs.minGap,
                             cepArgs.maxConsecutive, AllFalse(Length), FALSE)

C38_AudioAvoidsPositionBelowThree ==
  /\ (genStage = "audio" /\ cepArgs.nLevel < 3)
       => AvoidOverlap /\ C38_Disjoint(pattern, plan.position)
  /\ (genStage = "pattern" /\ cepArgs.nLevel < 3)
       => C38_Disjoint(plan.audio, plan.position)
  /\ (genStage = "audio" /\ cepArgs.nLevel >= 3) => C38_Regardless
  /\ genStage = "position" => C38_Regardless

\* createEngagementPattern has returned at nLevel 2: both plans hold matches
\* and the audio plan got all of its matches, none on a position match.
C38_Witness ==
  /\ genStage = "pattern"
  /\ cepArgs.nLevel = 2
  /\ MatchCount(plan.position) >= 2
  /\ MatchCount(plan.audio) = cepArgs.audioMatches
  /\ cepArgs.audioMatches >= 2


\* The statistics store under importStats and clearStats, every text of
\* ImportData imported into every state the two operations lead to.
InitStats ==
  /\ StoreIdle
  /\ CtlIdle
  /\ GenIdle
  /\ AsgIdle
  /\ CallIdle
  /\ StatsIdle

NextStats ==
  \/ ImportStats
  \/ ClearStats

SpecStats == InitStats /\ [][NextStats]_vars

\* C39: importStats with data that cannot be imported (text that does not
\* parse, or a parsed object whose achievements field is not a list) throws
\* "Invalid stats data format" and leaves both stats and achievements
\* exactly as they were before the call.
C39_NotImportable(data) ==
  \/ ~data.wellFormed
  \/ /\ data.document.kind = "object"
     /\ data.document.value.achievements.kind \notin {"undefined", "array"}

C39_Step ==
  (/\ lastStatsCall'.op = "importStats"
   /\ C39_NotImportable(lastStatsCall'.data))
    => /\ lastStatsCall'.error = InvalidFormat
       /\ stats' = stats
       /\ achievements' = achievements

C39_FailedImportChangesNothing == [][C39_Step]_vars

====
